---- MODULE Spec2Model ----

(***************************************************************************)
(* A state-machine model of cb2World (body/joint lifetime, Step, Solve,    *)
(* SolveTOI) and of cb2FrictionJoint's velocity solver.                     *)
(*                                                                         *)
(* Bodies, joints and contacts are slots of fixed pools; the intrusive     *)
(* doubly linked lists of the source are sequences (head first).  Floats   *)
(* are integers: positions and velocities are small integers, a time       *)
(* fraction alpha is k/AlphaOne.                                           *)
(***************************************************************************)
EXTENDS Integers, Sequences, FiniteSets, TLC

(***************************************************************************)
(* Bounds of the model.                                                    *)
(***************************************************************************)
MaxBodies == 3        \* size of the body pool
MaxJoints == 2        \* size of the joint pool
MaxContacts == 2      \* size of the contact pool
MaxWorldBodies == 2   \* bodies CreateBody may have alive at once
MaxWorldJoints == 1   \* joints CreateJoint may have alive at once
MaxWorldContacts == 1 \* contacts FindNewContacts may have alive at once
MaxSteps == 1         \* Step calls of one behaviour

BodyId == 1..MaxBodies
JointId == 1..MaxJoints
ContactId == 1..MaxContacts

NULL == 0
BodyTypes == {"cb2_staticBody", "cb2_kinematicBody", "cb2_dynamicBody"}

VARIABLES
    m_bodyList,          \* cb2World::m_bodyList, head first
    m_bodyCount,         \* cb2World::m_bodyCount
    body,                \* BodyId -> the cb2Body in that slot
    m_jointList,         \* cb2World::m_jointList, head first
    m_jointCount,        \* cb2World::m_jointCount
    joint,               \* JointId -> the cb2Joint in that slot
    jointEdges,          \* BodyId -> cb2Body::m_jointList, a sequence of <<joint, side>>
    links,               \* the pointers of the three kinds of list: the heads
                         \* cb2World::m_bodyList and m_jointList, m_prev, m_next
                         \* and m_jointList of a body, m_prev, m_next and the
                         \* two cb2JointEdge (other, prev, next) of a joint
    m_contactList,       \* cb2ContactManager::m_contactList, head first
    contact,             \* ContactId -> the cb2Contact in that slot
    m_flags,             \* cb2World::m_flags: e_newFixture, e_locked, e_clearForces
    m_stepComplete,
    m_continuousPhysics,
    m_subStepping,
    m_warmStarting,
    m_allowSleep,
    m_destructionListener, \* whether cb2World::m_destructionListener is set, and the
                         \* SayGoodbye calls of the last DestroyBody call, in order
    m_broadPhase,        \* m_contactManager.m_broadPhase: how far ShiftOrigin has
                         \* moved its boxes
    m_inv_dt0,           \* cb2World::m_inv_dt0 as a fraction <<numerator, denominator>>
    pc,                  \* where the running Step call is; "idle" when none runs
    step,                \* the cb2TimeStep of the running Step call
    seed,                \* Solve: index in m_bodyList of the next seed candidate
    islands,             \* the islands built by the current Solve pass, in order
    events,              \* SolveTOI: <<minContact, minAlpha, Step call>> of the
                         \* events of the step in progress, in order
    toiIsland,           \* SolveTOI: the island that the latest iteration of the
                         \* event loop solved, if it solved one, with the
                         \* sub-step and the indices given to its solver
    awake0,              \* the bodies that were awake when the current Solve pass began
    fj,                  \* a cb2FrictionJoint and the solver data it works on
    stepCount,           \* Step calls so far
    ret                  \* what the last CreateBody or CreateJoint call returned

heapVars == <<m_bodyList, m_bodyCount, body, m_jointList, m_jointCount, joint,
              jointEdges, links, m_contactList, contact>>
settingVars == <<m_continuousPhysics, m_subStepping, m_warmStarting, m_allowSleep,
                 m_destructionListener, m_broadPhase>>
stepVars == <<pc, step, seed, islands, events, toiIsland, awake0, stepCount>>
vars == <<heapVars, m_flags, m_stepComplete, settingVars, m_inv_dt0, stepVars, fj,
          ret>>

(***************************************************************************)
(* Sequence helpers.                                                       *)
(***************************************************************************)
Range(s) == {s[i] : i \in DOMAIN s}

RECURSIVE Remove(_, _)
Remove(s, x) ==
    IF s = <<>> THEN <<>>
    ELSE IF Head(s) = x THEN Remove(Tail(s), x)
    ELSE <<Head(s)>> \o Remove(Tail(s), x)

Min(S) == CHOOSE x \in S : \A y \in S : x <= y

(***************************************************************************)
(* The objects.                                                            *)
(***************************************************************************)
FreeBody == [type |-> "free", awake |-> FALSE, active |-> FALSE,
             islandFlag |-> FALSE, bullet |-> FALSE, fixture |-> "none",
             p |-> 0, c |-> 0, c0 |-> 0, alpha0 |-> 0, v |-> 0, force |-> 0]

FreeJoint == [bodyA |-> NULL, bodyB |-> NULL, collideConnected |-> FALSE,
              islandFlag |-> FALSE, shift |-> 0]

FreeContact == [bodyA |-> NULL, bodyB |-> NULL, sensor |-> FALSE,
                enabled |-> FALSE, touching |-> FALSE, filter |-> FALSE,
                islandFlag |-> FALSE, toiFlag |-> FALSE, toiCount |-> 0,
                toi |-> 0]

\* A cb2JointEdge is named by its joint and its side; NULL is NoEdge.
NoEdge == <<NULL, "A">>
FreeEdge == [other |-> NULL, prev |-> NoEdge, next |-> NoEdge]
FreeBodyLinks == [m_prev |-> NULL, m_next |-> NULL, m_jointList |-> NoEdge]
FreeJointLinks == [m_prev |-> NULL, m_next |-> NULL, A |-> FreeEdge, B |-> FreeEdge]

\* The pointers of the world the constructor leaves (lines 41-42).
NoLinks == [bodyList |-> NULL, body |-> [b \in BodyId |-> FreeBodyLinks],
            jointList |-> NULL, joint |-> [j \in JointId |-> FreeJointLinks]]

\* The latest iteration of the event loop of SolveTOI solved no island.
NoTOIIsland == [bodies |-> <<>>, contacts |-> <<>>, joints |-> <<>>]

\* The heap as one value, for the operators that the handlers compose.
Heap == [bl |-> m_bodyList, bc |-> m_bodyCount, b |-> body,
         jl |-> m_jointList, jc |-> m_jointCount, j |-> joint,
         je |-> jointEdges, ln |-> links, cl |-> m_contactList, c |-> contact]

Store(h) ==
    /\ m_bodyList' = h.bl
    /\ m_bodyCount' = h.bc
    /\ body' = h.b
    /\ m_jointList' = h.jl
    /\ m_jointCount' = h.jc
    /\ joint' = h.j
    /\ jointEdges' = h.je
    /\ links' = h.ln
    /\ m_contactList' = h.cl
    /\ contact' = h.c

IsLocked == m_flags.locked

\* The listeners SetDestructionListener is called with: none, or one that has
\* heard nothing yet. The constructor sets m_destructionListener = NULL.
NoListener == [set |-> FALSE, heard |-> <<>>]
Listeners == {NoListener, [set |-> TRUE, heard |-> <<>>]}

\* A behaviour ends when its last Step call has returned.
Running == stepCount < MaxSteps \/ pc # "idle"

\* cb2Body::SetAwake(true) on body b of heap h.
SetAwake(h, b) == [h EXCEPT !.b[b].awake = TRUE]

\* cb2Body::m_contactList of body b: the contacts of b, newest first.
ContactEdges(h, b) ==
    SelectSeq(h.cl, LAMBDA c : h.c[c].bodyA = b \/ h.c[c].bodyB = b)

Other(x, b) == IF x.bodyA = b THEN x.bodyB ELSE x.bodyA

(***************************************************************************)
(* cb2ContactManager (a collaborator of cb2World).                         *)
(***************************************************************************)
\* cb2ContactManager::Destroy: unlink and free contact c; freeing a touching
\* solid contact wakes its two bodies.
ContactDestroy(h, c) ==
    LET x == h.c[c]
        h1 == IF x.touching /\ ~x.sensor
              THEN SetAwake(SetAwake(h, x.bodyA), x.bodyB)
              ELSE h
    IN [h1 EXCEPT !.cl = Remove(h.cl, c), !.c[c] = FreeContact]

RECURSIVE ContactDestroyAll(_, _)
ContactDestroyAll(h, cs) ==
    IF cs = <<>> THEN h
    ELSE ContactDestroyAll(ContactDestroy(h, Head(cs)), Tail(cs))

\* cb2Contact::FlagForFiltering on every contact between bodyB and bodyA.
FlagForFiltering(h, bodyA, bodyB) ==
    [h EXCEPT !.c = [c \in ContactId |->
        IF c \in Range(h.cl) /\ c \in Range(ContactEdges(h, bodyB))
           /\ Other(h.c[c], bodyB) = bodyA
        THEN [h.c[c] EXCEPT !.filter = TRUE]
        ELSE h.c[c]]]

(***************************************************************************)
(* cb2World::CreateBody                                                    *)
(***************************************************************************)
BodyDefs == [type : BodyTypes, awake : {TRUE}]
SensorValues == {FALSE}

\* The cb2Body constructor: flags, type and state from the definition.
NewBody(def) ==
    [FreeBody EXCEPT !.type = def.type, !.awake = def.awake, !.active = TRUE]

\* Lines 119-126: add to world doubly linked list.
LinkBody(ln, b) ==
    LET ln1 == [ln EXCEPT !.body[b] = [FreeBodyLinks EXCEPT !.m_next = ln.bodyList]]
        ln2 == IF ln.bodyList # NULL
               THEN [ln1 EXCEPT !.body[ln.bodyList].m_prev = b]
               ELSE ln1
    IN [ln2 EXCEPT !.bodyList = b]

CreateBodyUnlocked(def) ==
    /\ m_bodyCount < MaxWorldBodies
    /\ LET b == Min(BodyId \ Range(m_bodyList))
       IN /\ Store([Heap EXCEPT !.b[b] = NewBody(def),
                                !.bl = <<b>> \o m_bodyList,
                                !.ln = LinkBody(@, b),
                                !.bc = m_bodyCount + 1])
          /\ ret' = "object"

CreateBody_NoLockCheck(def) ==
    /\ Running
    /\ CreateBodyUnlocked(def)
    /\ UNCHANGED <<m_flags, m_stepComplete, settingVars, m_inv_dt0, stepVars, fj>>

CreateBody(def) ==
    /\ Running
    /\ IF IsLocked
       THEN ret' = "NULL" /\ UNCHANGED heapVars
       ELSE CreateBodyUnlocked(def)
    /\ UNCHANGED <<m_flags, m_stepComplete, settingVars, m_inv_dt0, stepVars, fj>>

(***************************************************************************)
(* cb2World::DestroyJoint                                                  *)
(***************************************************************************)
\* Whether the joint, or the fixture of the body, with this id is alive on heap h.
Exists(h, kind, id) ==
    IF kind = "joint" THEN id \in Range(h.jl) ELSE h.b[id].fixture # "none"

\* The cb2JointEdge e in the pointers ln.
Edge(ln, e) == ln.joint[e[1]][e[2]]

\* An unlinking that leaves the head of the world list alone.
UnlinkJoint_KeepHead(ln, j) ==
    LET prev == ln.joint[j].m_prev
        next == ln.joint[j].m_next
        ln1 == IF prev # NULL THEN [ln EXCEPT !.joint[prev].m_next = next] ELSE ln
    IN IF next # NULL THEN [ln1 EXCEPT !.joint[next].m_prev = prev] ELSE ln1

\* Lines 282-296: remove from the doubly linked list.
UnlinkJoint(ln, j) ==
    LET prev == ln.joint[j].m_prev
        next == ln.joint[j].m_next
        ln1 == IF prev # NULL THEN [ln EXCEPT !.joint[prev].m_next = next] ELSE ln
        ln2 == IF next # NULL THEN [ln1 EXCEPT !.joint[next].m_prev = prev] ELSE ln1
    IN IF j = ln.jointList THEN [ln2 EXCEPT !.jointList = next] ELSE ln2

\* An unlinking that leaves the edge before alone.
UnlinkEdge_KeepPrev(ln, e, b) ==
    LET prev == Edge(ln, e).prev
        next == Edge(ln, e).next
        ln2 == IF next # NoEdge
               THEN [ln EXCEPT !.joint[next[1]][next[2]].prev = prev]
               ELSE ln
        ln3 == IF e = ln.body[b].m_jointList
               THEN [ln2 EXCEPT !.body[b].m_jointList = next]
               ELSE ln2
    IN [ln3 EXCEPT !.joint[e[1]][e[2]].prev = NoEdge,
                   !.joint[e[1]][e[2]].next = NoEdge]

\* Lines 306-321 and 323-339: remove the edge e from the list of body b.
UnlinkEdge(ln, e, b) ==
    LET prev == Edge(ln, e).prev
        next == Edge(ln, e).next
        ln1 == IF prev # NoEdge
               THEN [ln EXCEPT !.joint[prev[1]][prev[2]].next = next]
               ELSE ln
        ln2 == IF next # NoEdge
               THEN [ln1 EXCEPT !.joint[next[1]][next[2]].prev = prev]
               ELSE ln1
        ln3 == IF e = ln.body[b].m_jointList
               THEN [ln2 EXCEPT !.body[b].m_jointList = next]
               ELSE ln2
    IN [ln3 EXCEPT !.joint[e[1]][e[2]].prev = NoEdge,
                   !.joint[e[1]][e[2]].next = NoEdge]

\* A DestroyJoint that leaves the bodies as they are.
DestroyJointUnlocked_NoWake(h, j) ==
    LET bodyA == h.j[j].bodyA
        bodyB == h.j[j].bodyB
        collideConnected == h.j[j].collideConnected
        \* Remove from the doubly linked list.
        h1 == [h EXCEPT !.jl = Remove(h.jl, j), !.ln = UnlinkJoint(@, j)]
        h2 == h1
        \* Remove from body 1 and from body 2.
        h3 == [h2 EXCEPT !.je[bodyA] = Remove(h2.je[bodyA], <<j, "A">>),
                         !.ln = UnlinkEdge(@, <<j, "A">>, bodyA)]
        h4 == [h3 EXCEPT !.je[bodyB] = Remove(h3.je[bodyB], <<j, "B">>),
                         !.ln = UnlinkEdge(@, <<j, "B">>, bodyB)]
        h5 == [h4 EXCEPT !.j[j] = FreeJoint, !.jc = h4.jc - 1,
                         !.ln.joint[j] = FreeJointLinks]
    IN IF collideConnected = FALSE
       THEN FlagForFiltering(h5, bodyA, bodyB)
       ELSE h5

\* Lines 272-348 on heap h, the world unlocked.
DestroyJointUnlocked(h, j) ==
    LET bodyA == h.j[j].bodyA
        bodyB == h.j[j].bodyB
        collideConnected == h.j[j].collideConnected
        \* Remove from the doubly linked list.
        h1 == [h EXCEPT !.jl = Remove(h.jl, j), !.ln = UnlinkJoint(@, j)]
        \* Wake up connected bodies.
        h2 == SetAwake(SetAwake(h1, bodyA), bodyB)
        \* Remove from body 1 and from body 2.
        h3 == [h2 EXCEPT !.je[bodyA] = Remove(h2.je[bodyA], <<j, "A">>),
                         !.ln = UnlinkEdge(@, <<j, "A">>, bodyA)]
        h4 == [h3 EXCEPT !.je[bodyB] = Remove(h3.je[bodyB], <<j, "B">>),
                         !.ln = UnlinkEdge(@, <<j, "B">>, bodyB)]
        h5 == [h4 EXCEPT !.j[j] = FreeJoint, !.jc = h4.jc - 1,
                         !.ln.joint[j] = FreeJointLinks]
    IN IF collideConnected = FALSE
       THEN FlagForFiltering(h5, bodyA, bodyB)
       ELSE h5

DestroyJoint(j) ==
    /\ Running
    /\ UNCHANGED <<ret, fj>>
    /\ j \in Range(m_jointList)
    /\ IF IsLocked
       THEN UNCHANGED heapVars
       ELSE Store(DestroyJointUnlocked(Heap, j))
    /\ UNCHANGED <<m_flags, m_stepComplete, settingVars, m_inv_dt0, stepVars>>

(***************************************************************************)
(* cb2World::CreateJoint                                                   *)
(***************************************************************************)
JointDefs ==
    {d \in [bodyA : Range(m_bodyList), bodyB : Range(m_bodyList),
            collideConnected : BOOLEAN] : d.bodyA # d.bodyB}

\* Lines 220-265 on heap h: the new joint j is linked into the world list and
\* into the joint lists of its two bodies.
\* Lines 223-229: connect the joint j to the world list.
LinkJointToWorld(ln, j) ==
    LET ln1 == [ln EXCEPT !.joint[j] = [FreeJointLinks EXCEPT !.m_next = ln.jointList]]
        ln2 == IF ln.jointList # NULL
               THEN [ln1 EXCEPT !.joint[ln.jointList].m_prev = j]
               ELSE ln1
    IN [ln2 EXCEPT !.jointList = j]

\* Lines 232-237 and 239-244: connect the edge e of a joint to the list of
\* its body b; the edge points at the other body.
LinkEdge(ln, e, b, other) ==
    LET first == ln.body[b].m_jointList
        ln1 == [ln EXCEPT !.joint[e[1]][e[2]] =
                             [other |-> other, prev |-> NoEdge, next |-> first]]
        ln2 == IF first # NoEdge
               THEN [ln1 EXCEPT !.joint[first[1]][first[2]].prev = e]
               ELSE ln1
    IN [ln2 EXCEPT !.body[b].m_jointList = e]

LinkJoint(h, j, def) ==
    LET \* Connect to the world list.
        h1 == [h EXCEPT !.j[j] = [FreeJoint EXCEPT
                                     !.bodyA = def.bodyA,
                                     !.bodyB = def.bodyB,
                                     !.collideConnected = def.collideConnected],
                        !.jl = <<j>> \o h.jl,
                        !.ln = LinkJointToWorld(@, j),
                        !.jc = h.jc + 1]
        \* Connect to the bodies' doubly linked lists.
        h2 == [h1 EXCEPT !.je[def.bodyA] = <<(<<j, "A">>)>> \o h1.je[def.bodyA],
                         !.ln = LinkEdge(@, <<j, "A">>, def.bodyA, def.bodyB)]
        h3 == [h2 EXCEPT !.je[def.bodyB] = <<(<<j, "B">>)>> \o h2.je[def.bodyB],
                         !.ln = LinkEdge(@, <<j, "B">>, def.bodyB, def.bodyA)]
    IN IF def.collideConnected = FALSE
       THEN FlagForFiltering(h3, def.bodyA, def.bodyB)
       ELSE h3

CreateJointUnlocked(def) ==
    /\ m_jointCount < MaxWorldJoints
    /\ Store(LinkJoint(Heap, Min(JointId \ Range(m_jointList)), def))
    /\ ret' = "object"

CreateJoint(def) ==
    /\ Running
    /\ IF IsLocked
       THEN ret' = "NULL" /\ UNCHANGED heapVars
       ELSE CreateJointUnlocked(def)
    /\ UNCHANGED <<m_flags, m_stepComplete, settingVars, m_inv_dt0, stepVars, fj>>

(***************************************************************************)
(* cb2World::DestroyBody                                                   *)
(***************************************************************************)
\* The loop over b->m_jointList: je0 = je; je = je->next; DestroyJoint(je0->joint).
RECURSIVE DestroyAttachedJoints(_, _)
DestroyAttachedJoints(h, je) ==
    IF je = <<>> THEN h
    ELSE DestroyAttachedJoints(DestroyJointUnlocked(h, Head(je)[1]), Tail(je))

\* m_destructionListener->SayGoodbye(object) on heap h: the listener records
\* the object it is handed and whether that object still exists.
SayGoodbye(listener, h, kind, id) ==
    IF listener.set
    THEN [listener EXCEPT !.heard = Append(@, <<kind, id, Exists(h, kind, id)>>)]
    ELSE listener

\* The same loop, seen by the listener: SayGoodbye(je0->joint) comes before
\* DestroyJoint(je0->joint).
RECURSIVE GoodbyeJoints_AfterDestroy(_, _, _)
GoodbyeJoints_AfterDestroy(listener, h, je) ==
    IF je = <<>> THEN listener
    ELSE LET h1 == DestroyJointUnlocked(h, Head(je)[1])
         IN GoodbyeJoints_AfterDestroy(SayGoodbye(listener, h1, "joint", Head(je)[1]),
                                       h1, Tail(je))

RECURSIVE GoodbyeJoints(_, _, _)
GoodbyeJoints(listener, h, je) ==
    IF je = <<>> THEN listener
    ELSE GoodbyeJoints(SayGoodbye(listener, h, "joint", Head(je)[1]),
                       DestroyJointUnlocked(h, Head(je)[1]), Tail(je))

\* The loop over b->m_fixtureList, seen by the listener: SayGoodbye(f0) comes
\* before f0 is destroyed. A body has one fixture at most.
GoodbyeFixtures(listener, h, b) ==
    IF h.b[b].fixture = "none" THEN listener
    ELSE SayGoodbye(listener, h, "fixture", b)

\* Lines 141-155 as written: je walks the joint edges of body b by their
\* next pointers, read before the joint of the edge is destroyed.
RECURSIVE DestroyJointsOf(_, _, _)
DestroyJointsOf(h, b, je0) ==
    IF je0 = NoEdge THEN h
    ELSE LET je == Edge(h.ln, je0).next
             h1 == DestroyJointUnlocked(h, je0[1])
         IN DestroyJointsOf([h1 EXCEPT !.ln.body[b].m_jointList = je], b, je)

\* Lines 190-204: remove from the world body list.
UnlinkBody(ln, b) ==
    LET prev == ln.body[b].m_prev
        next == ln.body[b].m_next
        ln1 == IF prev # NULL THEN [ln EXCEPT !.body[prev].m_next = next] ELSE ln
        ln2 == IF next # NULL THEN [ln1 EXCEPT !.body[next].m_prev = prev] ELSE ln1
        ln3 == IF b = ln.bodyList THEN [ln2 EXCEPT !.bodyList = next] ELSE ln2
    IN [ln3 EXCEPT !.body[b] = FreeBodyLinks]

DestroyBodyUnlocked(h, b) ==
    LET \* Delete the attached joints.
        h1 == DestroyJointsOf(h, b, h.ln.body[b].m_jointList)
        h2 == [h1 EXCEPT !.je[b] = <<>>, !.ln.body[b].m_jointList = NoEdge]
        \* Delete the attached contacts.
        h3 == ContactDestroyAll(h2, ContactEdges(h2, b))
        \* Delete the attached fixtures, remove from the world body list.
    IN [h3 EXCEPT !.bl = Remove(h3.bl, b), !.bc = h3.bc - 1, !.b[b] = FreeBody,
                  !.ln = UnlinkBody(@, b)]

\* What the listener has heard when DestroyBody(b) returns.
DestroyBodyHeard(listener, h, b) ==
    LET l1 == GoodbyeJoints([listener EXCEPT !.heard = <<>>], h, h.je[b])
        h1 == DestroyAttachedJoints(h, h.je[b])
        h3 == ContactDestroyAll([h1 EXCEPT !.je[b] = <<>>],
                                ContactEdges([h1 EXCEPT !.je[b] = <<>>], b))
    IN GoodbyeFixtures(l1, h3, b)

DestroyBody(b) ==
    /\ Running
    /\ UNCHANGED <<ret, fj>>
    /\ b \in Range(m_bodyList)
    /\ IF IsLocked
       THEN UNCHANGED <<heapVars, m_destructionListener>>
       ELSE /\ Store(DestroyBodyUnlocked(Heap, b))
            /\ m_destructionListener' =
                  DestroyBodyHeard(m_destructionListener, Heap, b)
    /\ UNCHANGED <<m_flags, m_stepComplete, m_continuousPhysics, m_subStepping,
                   m_warmStarting, m_allowSleep, m_broadPhase, m_inv_dt0,
                   stepVars>>

\* cb2World::SetDestructionListener.
SetDestructionListener(listener) ==
    /\ pc = "idle"
    /\ m_destructionListener' = listener
    /\ UNCHANGED <<heapVars, m_flags, m_stepComplete, m_continuousPhysics,
                   m_subStepping, m_warmStarting, m_allowSleep, m_broadPhase,
                   m_inv_dt0, stepVars, fj, ret>>

(***************************************************************************)
(* cb2World::ShiftOrigin                                                   *)
(***************************************************************************)
MaxCoordinate == 3    \* positions stay within -MaxCoordinate..MaxCoordinate

\* b->m_xf.p -= newOrigin; b->m_sweep.c0 -= newOrigin; b->m_sweep.c -= newOrigin.
ShiftBody_KeepTransform(x, newOrigin) ==
    [x EXCEPT !.c0 = @ - newOrigin, !.c = @ - newOrigin]

ShiftBody(x, newOrigin) ==
    [x EXCEPT !.p = @ - newOrigin, !.c0 = @ - newOrigin, !.c = @ - newOrigin]

\* cb2Joint::ShiftOrigin: what a joint keeps in world coordinates moves by
\* -newOrigin.
JointShiftOrigin(x, newOrigin) == [x EXCEPT !.shift = @ - newOrigin]

\* cb2BroadPhase::ShiftOrigin: the boxes of the tree move by -newOrigin.
BroadPhaseShiftOrigin(bp, newOrigin) == bp - newOrigin

ShiftOriginUnlocked(h, newOrigin) ==
    [h EXCEPT !.b = [b \in BodyId |->
                       IF b \in Range(h.bl) THEN ShiftBody(h.b[b], newOrigin)
                       ELSE h.b[b]],
              !.j = [j \in JointId |->
                       IF j \in Range(h.jl) THEN JointShiftOrigin(h.j[j], newOrigin)
                       ELSE h.j[j]]]

\* Every coordinate of heap h and of the broad-phase bp is in range.
InRange(h, bp) ==
    /\ bp \in -MaxCoordinate..MaxCoordinate
    /\ \A b \in Range(h.bl) :
          {h.b[b].p, h.b[b].c0, h.b[b].c} \subseteq -MaxCoordinate..MaxCoordinate
    /\ \A j \in Range(h.jl) : h.j[j].shift \in -MaxCoordinate..MaxCoordinate

ShiftOrigin(newOrigin) ==
    /\ InRange(ShiftOriginUnlocked(Heap, newOrigin),
               BroadPhaseShiftOrigin(m_broadPhase, newOrigin))
    /\ IF IsLocked
       THEN UNCHANGED <<heapVars, m_broadPhase>>
       ELSE /\ Store(ShiftOriginUnlocked(Heap, newOrigin))
            /\ m_broadPhase' = BroadPhaseShiftOrigin(m_broadPhase, newOrigin)
    /\ UNCHANGED <<m_flags, m_stepComplete, m_continuousPhysics, m_subStepping,
                   m_warmStarting, m_allowSleep, m_destructionListener,
                   m_inv_dt0, stepVars, fj, ret>>

(***************************************************************************)
(* Collaborators of cb2World whose code lives in cb2Body and               *)
(* cb2ContactManager.                                                      *)
(***************************************************************************)
\* cb2Body::CreateFixture: refused while the world is locked; a fixture on an
\* active body raises e_newFixture.
CreateFixture(b, isSensor) ==
    /\ pc = "idle"
    /\ b \in Range(m_bodyList)
    /\ body[b].fixture = "none"
    /\ UNCHANGED <<ret, fj>>
    /\ body' = [body EXCEPT ![b].fixture = IF isSensor THEN "sensor" ELSE "solid"]
    /\ m_flags' = [m_flags EXCEPT !.newFixture = @ \/ body[b].active]
    /\ UNCHANGED <<m_bodyList, m_bodyCount, m_jointList, m_jointCount, joint,
                   jointEdges, links, m_contactList, contact, m_stepComplete,
                   settingVars, m_inv_dt0, stepVars>>

\* cb2Body::ApplyForce: only a dynamic body accumulates force; it is woken.
ApplyForce(b) ==
    /\ pc = "idle"
    /\ b \in Range(m_bodyList)
    /\ body[b].type = "cb2_dynamicBody"
    /\ body[b].force = 0
    /\ UNCHANGED <<ret, fj>>
    /\ body' = [body EXCEPT ![b].force = 1, ![b].awake = TRUE]
    /\ UNCHANGED <<m_bodyList, m_bodyCount, m_jointList, m_jointCount, joint,
                   jointEdges, links, m_contactList, contact, m_flags,
                   m_stepComplete,
                   settingVars, m_inv_dt0, stepVars>>

\* cb2World::SetAutoClearForces, SetContinuousPhysics, SetSubStepping.
SetAutoClearForces(flag) ==
    /\ pc = "idle"
    /\ flag # m_flags.clearForces
    /\ UNCHANGED <<ret, fj>>
    /\ m_flags' = [m_flags EXCEPT !.clearForces = flag]
    /\ UNCHANGED <<heapVars, m_stepComplete, settingVars, m_inv_dt0, stepVars>>

SetContinuousPhysics(flag) ==
    /\ pc = "idle"
    /\ flag # m_continuousPhysics
    /\ UNCHANGED <<ret, fj>>
    /\ m_continuousPhysics' = flag
    /\ UNCHANGED <<heapVars, m_flags, m_stepComplete, m_subStepping,
                   m_warmStarting, m_allowSleep, m_destructionListener,
                   m_broadPhase, m_inv_dt0, stepVars>>

\* cb2Body::ShouldCollide and the pair test of cb2ContactManager::AddPair: two
\* different active bodies with fixtures, at least one of them dynamic, no
\* joint between them that forbids collision, no contact between them yet.
ShouldCollide(h, a, b) ==
    /\ a # b
    /\ h.b[a].active /\ h.b[b].active
    /\ h.b[a].fixture # "none" /\ h.b[b].fixture # "none"
    /\ h.b[a].type = "cb2_dynamicBody" \/ h.b[b].type = "cb2_dynamicBody"
    /\ \A e \in Range(h.je[a]) :
          h.j[e[1]].collideConnected \/ Other(h.j[e[1]], a) # b
    /\ \A c \in Range(h.cl) : {h.c[c].bodyA, h.c[c].bodyB} # {a, b}

NewContact(h, a, b) ==
    [FreeContact EXCEPT !.bodyA = a, !.bodyB = b, !.enabled = TRUE,
                        !.sensor = (h.b[a].fixture = "sensor"
                                    \/ h.b[b].fixture = "sensor")]

\* cb2ContactManager::FindNewContacts: the broad-phase reports some pair that
\* newly overlaps, or none; the reported pair gets a contact.
FindNewContacts(h) ==
    {h} \cup
    {[h EXCEPT !.cl = <<Min(ContactId \ Range(h.cl))>> \o h.cl,
               !.c[Min(ContactId \ Range(h.cl))] = NewContact(h, a, b)] :
        <<a, b>> \in {p \in Range(h.bl) \X Range(h.bl) :
                        /\ Len(h.cl) < MaxWorldContacts
                        /\ p[1] < p[2]
                        /\ ShouldCollide(h, p[1], p[2])}}

\* cb2Contact::Update as cb2World sees it: the contact is re-enabled, its
\* touching flag recomputed, PreSolve may disable a touching solid contact,
\* and a change of the touching flag of a solid contact wakes both bodies.
ContactUpdate(h, c) ==
    {LET h1 == [h EXCEPT !.c[c].enabled = en, !.c[c].touching = t]
     IN IF t # h.c[c].touching /\ ~h.c[c].sensor
        THEN SetAwake(SetAwake(h1, h.c[c].bodyA), h.c[c].bodyB)
        ELSE h1 :
        <<t, en>> \in {q \in BOOLEAN \X BOOLEAN :
                         q[2] \/ (q[1] /\ ~h.c[c].sensor)}}

BodyIsMoving(h, b) == h.b[b].awake /\ h.b[b].type # "cb2_staticBody"

\* cb2ContactManager::Collide on the contacts cs (a snapshot of the list):
\* a contact flagged for filtering may be destroyed; a contact between two
\* bodies that do not move is skipped; a contact whose proxies no longer
\* overlap is destroyed; every other contact is updated.
RECURSIVE Collide(_, _)
Collide(h, cs) ==
    IF cs = <<>> THEN {h}
    ELSE LET c == Head(cs)
             x == h.c[c]
             h0 == [h EXCEPT !.c[c].filter = FALSE]
             after ==
                 (IF x.filter THEN {ContactDestroy(h, c)} ELSE {})
                 \cup
                 (IF ~BodyIsMoving(h, x.bodyA) /\ ~BodyIsMoving(h, x.bodyB)
                  THEN {h0}
                  ELSE {ContactDestroy(h, c)} \cup ContactUpdate(h0, c))
         IN UNION {Collide(h1, Tail(cs)) : h1 \in after}

(***************************************************************************)
(* Exact arithmetic for the floats of the solvers: a number is a            *)
(* fraction <<n, d>> in lowest terms with d > 0, a vector a pair of         *)
(* numbers, a matrix a pair of rows.                                       *)
(***************************************************************************)
Abs(n) == IF n < 0 THEN -n ELSE n

RECURSIVE GCD(_, _)
GCD(a, b) == IF b = 0 THEN a ELSE GCD(b, a % b)

Q(n, d) ==
    LET g == GCD(Abs(n), Abs(d))
        sgn == IF d < 0 THEN -1 ELSE 1
    IN <<sgn * (n \div g), sgn * (d \div g)>>

QInt(n) == <<n, 1>>
QZero == <<0, 1>>
QAdd(a, b) ==
    LET g == GCD(a[2], b[2])
    IN Q(a[1] * (b[2] \div g) + b[1] * (a[2] \div g), (a[2] \div g) * b[2])
QNeg(a) == <<-a[1], a[2]>>
QSub(a, b) == QAdd(a, QNeg(b))
QMul(a, b) == Q(a[1] * b[1], a[2] * b[2])
QInv(a) == Q(a[2], a[1])
QLess(a, b) ==
    LET g == GCD(a[2], b[2]) IN a[1] * (b[2] \div g) < b[1] * (a[2] \div g)
QLeq(a, b) ==
    LET g == GCD(a[2], b[2]) IN a[1] * (b[2] \div g) <= b[1] * (a[2] \div g)
QAbs(a) == <<Abs(a[1]), a[2]>>

cb2Min(a, b) == IF QLess(a, b) THEN a ELSE b
cb2Max(a, b) == IF QLess(b, a) THEN a ELSE b
cb2Clamp(a, low, high) == cb2Max(low, cb2Min(a, high))

VZero == <<QZero, QZero>>
VInt(x, y) == <<QInt(x), QInt(y)>>
VAdd(a, b) == <<QAdd(a[1], b[1]), QAdd(a[2], b[2])>>
VSub(a, b) == <<QSub(a[1], b[1]), QSub(a[2], b[2])>>
VScale(s, a) == <<QMul(s, a[1]), QMul(s, a[2])>>
VNeg(a) == <<QNeg(a[1]), QNeg(a[2])>>
Dot(a, b) == QAdd(QMul(a[1], b[1]), QMul(a[2], b[2]))
LengthSquared(a) == Dot(a, a)

\* cb2Cross of two vectors, and of a scalar and a vector.
cb2Cross(a, b) == QSub(QMul(a[1], b[2]), QMul(a[2], b[1]))
cb2CrossSV(s, a) == <<QMul(QNeg(s), a[2]), QMul(s, a[1])>>

\* cb2Mul of a matrix and a vector.
cb2Mul(A, v) == <<QAdd(QMul(A[1][1], v[1]), QMul(A[1][2], v[2])),
                  QAdd(QMul(A[2][1], v[1]), QMul(A[2][2], v[2]))>>

\* Matrix22::inverted: the inverse, the zero matrix when there is none.
Inverted(K) ==
    LET det == QSub(QMul(K[1][1], K[2][2]), QMul(K[1][2], K[2][1]))
    IN IF det = QZero THEN <<VZero, VZero>>
       ELSE LET inv == QInv(det)
            IN << <<QMul(inv, K[2][2]), QMul(QNeg(inv), K[1][2])>>,
                  <<QMul(QNeg(inv), K[2][1]), QMul(inv, K[1][1])>> >>

\* The square root of a natural number, where it is a natural number up to
\* MaxRoot.
MaxRoot == 1000
Roots(n) == 0..(IF n < MaxRoot THEN n ELSE MaxRoot)
IsSquare(n) == \E r \in Roots(n) : r * r = n
Sqrt(n) == CHOOSE r \in Roots(n) : r * r = n

\* The length of a vector is a fraction of numbers up to MaxRoot.
HasLength(a) ==
    /\ \A i \in 1..2 : Abs(a[i][1]) <= MaxRoot /\ a[i][2] <= MaxRoot
    /\ LET q == LengthSquared(a) IN IsSquare(q[1]) /\ IsSquare(q[2])
Length(a) ==
    LET q == LengthSquared(a) IN Q(Sqrt(q[1]), Sqrt(q[2]))

\* Vec2::normalize: the vector is scaled by 1 / length.
Normalize(a) == VScale(QInv(Length(a)), a)

(***************************************************************************)
(* The floats of the time step.  A float has a mantissa of FloatBits bits;  *)
(* an operation gives the float nearest to the exact result, ties to the    *)
(* even mantissa.  FloatBits is 24 in the build.                            *)
(***************************************************************************)
FloatBits == 6

RECURSIVE Pow2(_)
Pow2(n) == IF n = 0 THEN 1 ELSE 2 * Pow2(n - 1)

\* a / d scaled by a power of two into the range of the mantissas:
\* <<a1, d1, up, down>> with a1 / d1 = (a / d) * down / up.
RECURSIVE Scaled(_, _, _, _)
Scaled(a, d, up, down) ==
    IF a >= d * Pow2(FloatBits) THEN Scaled(a, 2 * d, 2 * up, down)
    ELSE IF a < d * Pow2(FloatBits - 1) THEN Scaled(2 * a, d, up, 2 * down)
    ELSE <<a, d, up, down>>

\* The float nearest to a / d, for a > 0 and d > 0.
RoundPositive(a, d) ==
    LET s == Scaled(a, d, 1, 1)
        m == s[1] \div s[2]
        r == s[1] % s[2]
    IN IF 2 * r > s[2] \/ (2 * r = s[2] /\ m % 2 = 1)
       THEN Q((m + 1) * s[3], s[4])
       ELSE Q(m * s[3], s[4])

Round(q) ==
    IF q[1] = 0 THEN QZero
    ELSE IF q[1] < 0 THEN QNeg(RoundPositive(-q[1], q[2]))
    ELSE RoundPositive(q[1], q[2])

\* The float operations a / b and a * b.
FloatDiv(a, b) == Round(QMul(a, QInv(b)))
FloatMul(a, b) == Round(QMul(a, b))

(***************************************************************************)
(* cb2World::Step                                                          *)
(***************************************************************************)
DtValues == {-1, 0, 1}
IterationValues == {<<8, 3>>}   \* <<velocityIterations, positionIterations>>

\* No Step call is running: its cb2TimeStep does not exist.
NoStep == [dt |-> 0, velocityIterations |-> 0, positionIterations |-> 0,
           inv_dt |-> <<0, 1>>, dtRatio |-> <<0, 1>>, warmStarting |-> FALSE]

\* A dtRatio that is the ratio of this step's 1 / dt to the one before.
TimeStep_InverseRatio(dt, velocityIterations, positionIterations) ==
    [dt |-> dt,
     velocityIterations |-> velocityIterations,
     positionIterations |-> positionIterations,
     inv_dt |-> IF dt > 0 THEN FloatDiv(QInt(1), QInt(dt)) ELSE QZero,
     dtRatio |-> IF dt > 0 /\ m_inv_dt0 # QZero
                 THEN FloatDiv(FloatDiv(QInt(1), QInt(dt)), m_inv_dt0)
                 ELSE QZero,
     warmStarting |-> m_warmStarting]

\* Lines 910-925: fill in the cb2TimeStep.
TimeStep(dt, velocityIterations, positionIterations) ==
    [dt |-> dt,
     velocityIterations |-> velocityIterations,
     positionIterations |-> positionIterations,
     inv_dt |-> IF dt > 0 THEN FloatDiv(QInt(1), QInt(dt)) ELSE QZero,
     dtRatio |-> FloatMul(m_inv_dt0, QInt(dt)),
     warmStarting |-> m_warmStarting]

\* Collide followed by Solve and SolveTOI whatever the sign of dt.
PhaseAfterCollide_NoDtTest ==
    IF m_stepComplete THEN "solve"
    ELSE IF m_continuousPhysics THEN "toi"
    ELSE "finish"

\* Solve followed by a second Collide.
PhaseAfterSolve_CollideAgain == "collide"

\* Which phase follows Collide, Solve and SolveTOI (lines 935, 943, 950).
PhaseAfterCollide ==
    IF m_stepComplete /\ step.dt > 0 THEN "solve"
    ELSE IF m_continuousPhysics /\ step.dt > 0 THEN "toi"
    ELSE "finish"

PhaseAfterSolve ==
    IF m_continuousPhysics /\ step.dt > 0 THEN "toi" ELSE "finish"

\* Step is entered.  With e_newFixture set the call of FindNewContacts at
\* line 904 comes first, before the world is locked at line 908.
StepCall(dt, velocityIterations, positionIterations) ==
    /\ pc = "idle"
    /\ UNCHANGED <<ret, fj>>
    /\ stepCount' = stepCount + 1
    /\ step' = TimeStep(dt, velocityIterations, positionIterations)
    /\ IF m_flags.newFixture
       THEN /\ pc' = "findNew"
            /\ UNCHANGED m_flags
       ELSE /\ pc' = "collide"
            /\ m_flags' = [m_flags EXCEPT !.locked = TRUE]
    /\ UNCHANGED <<heapVars, m_stepComplete, settingVars, m_inv_dt0, seed, islands,
                   events, toiIsland, awake0>>

\* A behaviour has MaxSteps Step calls.
StepEnter(dt, velocityIterations, positionIterations) ==
    /\ stepCount < MaxSteps
    /\ StepCall(dt, velocityIterations, positionIterations)

\* Lines 902-908 with e_newFixture set: FindNewContacts runs, the flag is
\* cleared, and only then is the world locked.
StepFindNewContacts ==
    /\ pc = "findNew"
    /\ UNCHANGED <<ret, fj>>
    /\ \E h \in FindNewContacts(Heap) : Store(h)
    /\ m_flags' = [m_flags EXCEPT !.newFixture = FALSE, !.locked = TRUE]
    /\ step' = TimeStep(step.dt, step.velocityIterations, step.positionIterations)
    /\ pc' = "collide"
    /\ UNCHANGED <<m_stepComplete, settingVars, m_inv_dt0, seed, islands,
                   events, toiIsland, awake0, stepCount>>

\* Lines 927-932.
StepCollide ==
    /\ pc = "collide"
    /\ UNCHANGED <<ret, fj>>
    /\ \E h \in Collide(Heap, m_contactList) : Store(h)
    /\ pc' = PhaseAfterCollide
    /\ UNCHANGED <<m_flags, m_stepComplete, settingVars, m_inv_dt0, step, seed,
                   islands, events, toiIsland, awake0, stepCount>>

\* cb2World::ClearForces.
ClearForces(h) ==
    [h EXCEPT !.b = [b \in BodyId |->
        IF b \in Range(h.bl) THEN [h.b[b] EXCEPT !.force = 0] ELSE h.b[b]]]

\* Lines 950-963.  The events of a step that is complete are forgotten.
StepFinish ==
    /\ pc = "finish"
    /\ UNCHANGED <<ret, fj>>
    /\ m_inv_dt0' = IF step.dt > 0 THEN step.inv_dt ELSE m_inv_dt0
    /\ IF m_flags.clearForces
       THEN Store(ClearForces(Heap))
       ELSE UNCHANGED heapVars
    /\ m_flags' = [m_flags EXCEPT !.locked = FALSE]
    /\ pc' = "idle"
    /\ step' = NoStep
    /\ events' = IF m_stepComplete THEN <<>> ELSE events
    /\ toiIsland' = NoTOIIsland
    /\ UNCHANGED <<m_stepComplete, settingVars, seed, islands, awake0, stepCount>>

(***************************************************************************)
(* cb2World::Solve                                                         *)
(***************************************************************************)
EmptyIsland == [bodies |-> <<>>, contacts |-> <<>>, joints |-> <<>>]

\* Lines 399-411: clear all the island flags.
ClearIslandFlags(h) ==
    [h EXCEPT !.b = [b \in BodyId |-> [h.b[b] EXCEPT !.islandFlag = FALSE]],
              !.c = [c \in ContactId |-> [h.c[c] EXCEPT !.islandFlag = FALSE]],
              !.j = [j \in JointId |-> [h.j[j] EXCEPT !.islandFlag = FALSE]]]

\* A seed test that lets static bodies through.
IsSeed_AnyType(h, b) ==
    /\ ~h.b[b].islandFlag
    /\ h.b[b].awake /\ h.b[b].active

\* Lines 418-432: the tests a seed must pass.
IsSeed(h, b) ==
    /\ ~h.b[b].islandFlag
    /\ h.b[b].awake /\ h.b[b].active
    /\ h.b[b].type # "cb2_staticBody"

\* Lines 495-497 and 524-526: push a body and flag it.
Push(st, other) ==
    [st EXCEPT !.stack = Append(@, other),
               !.h.b[other].islandFlag = TRUE,
               !.overflow = @ \/ Len(st.stack) >= st.stackSize]

\* A contact test that does not skip sensors.
ContactQualifies_SensorsToo(x) ==
    /\ ~x.islandFlag
    /\ x.enabled /\ x.touching

\* Lines 463-482: is this contact of the searched body to be traversed?
ContactQualifies(x) ==
    /\ ~x.islandFlag
    /\ x.enabled /\ x.touching
    /\ ~x.sensor

\* Lines 459-498: search the contact edges ces of body b.
RECURSIVE SearchContacts(_, _, _)
SearchContacts(st, b, ces) ==
    IF ces = <<>> THEN st
    ELSE LET c == Head(ces)
             x == st.h.c[c]
             other == Other(x, b)
         IN IF ~ContactQualifies(x)
            THEN SearchContacts(st, b, Tail(ces))
            ELSE LET st1 == [st EXCEPT !.island.contacts = Append(@, c),
                                       !.h.c[c].islandFlag = TRUE]
                 IN IF st1.h.b[other].islandFlag
                    THEN SearchContacts(st1, b, Tail(ces))
                    ELSE SearchContacts(Push(st1, other), b, Tail(ces))

\* A joint test that leaves sleeping bodies out of the island.
JointQualifies_AwakeOnly(h, j, other) ==
    /\ ~h.j[j].islandFlag
    /\ h.b[other].active
    /\ h.b[other].awake

\* Lines 503-514: is this joint edge of the searched body to be traversed?
JointQualifies(h, j, other) ==
    /\ ~h.j[j].islandFlag
    /\ h.b[other].active

\* Lines 501-527: search the joint edges jes of body b.
RECURSIVE SearchJoints(_, _, _)
SearchJoints(st, b, jes) ==
    IF jes = <<>> THEN st
    ELSE LET j == Head(jes)[1]
             other == IF Head(jes)[2] = "A" THEN st.h.j[j].bodyB
                                            ELSE st.h.j[j].bodyA
         IN IF ~JointQualifies(st.h, j, other)
            THEN SearchJoints(st, b, Tail(jes))
            ELSE LET st1 == [st EXCEPT !.island.joints = Append(@, j),
                                       !.h.j[j].islandFlag = TRUE]
                 IN IF st1.h.b[other].islandFlag
                    THEN SearchJoints(st1, b, Tail(jes))
                    ELSE SearchJoints(Push(st1, other), b, Tail(jes))

\* A search that goes on from static bodies too.
Propagates_Always(h, b) == TRUE

\* Lines 453-456: the search does not go on from a static body.
Propagates(h, b) == h.b[b].type # "cb2_staticBody"

\* Lines 441-528: the depth first search on the constraint graph.
RECURSIVE DepthFirstSearch(_)
DepthFirstSearch(st) ==
    IF st.stack = <<>> THEN st
    ELSE LET b == st.stack[Len(st.stack)]
             st1 == [st EXCEPT !.stack = SubSeq(@, 1, Len(@) - 1),
                               !.island.bodies = Append(@, b),
                               !.h.b[b].awake = TRUE]
         IN IF ~Propagates(st1.h, b)
            THEN DepthFirstSearch(st1)
            ELSE DepthFirstSearch(
                     SearchJoints(SearchContacts(st1, b, ContactEdges(st1.h, b)),
                                  b, st1.h.je[b]))

\* A search whose stack is two bodies short.
BuildIsland_SmallStack(h, b) ==
    DepthFirstSearch([h |-> [h EXCEPT !.b[b].islandFlag = TRUE],
                      stack |-> <<b>>,
                      stackSize |-> h.bc - 2,
                      overflow |-> FALSE,
                      island |-> EmptyIsland])

\* Lines 434-438 and the search: the island grown from seed b.
BuildIsland(h, b) ==
    DepthFirstSearch([h |-> [h EXCEPT !.b[b].islandFlag = TRUE],
                      stack |-> <<b>>,
                      stackSize |-> h.bc,
                      overflow |-> FALSE,
                      island |-> EmptyIsland])

\* cb2Island::Solve, as far as cb2World depends on it: a dynamic body gains
\* dt * force of velocity, every non-static body moves by dt * velocity, and
\* with sleeping allowed an island whose bodies are all at rest may be put to
\* sleep as a whole.
Integrate(x, dt) ==
    IF x.type = "cb2_staticBody" THEN x
    ELSE LET v == IF x.type = "cb2_dynamicBody" THEN x.v + dt * x.force ELSE x.v
         IN [x EXCEPT !.v = v, !.c0 = x.c, !.c = x.c + dt * v,
                      !.p = x.c + dt * v]

IslandSolve(h, island, dt, allowSleep) ==
    LET moved == [h EXCEPT !.b = [b \in BodyId |->
                     IF b \in Range(island.bodies) THEN Integrate(h.b[b], dt)
                     ELSE h.b[b]]]
        asleep == [moved EXCEPT !.b = [b \in BodyId |->
                     IF b \in Range(island.bodies)
                     THEN [moved.b[b] EXCEPT !.awake = FALSE, !.v = 0, !.force = 0]
                     ELSE moved.b[b]]]
        atRest == \A b \in Range(island.bodies) : moved.b[b].v = 0
    IN {moved} \cup (IF allowSleep /\ atRest THEN {asleep} ELSE {})

\* No cleanup at all.
PostSolveCleanup_None(h, island) == h

\* A cleanup that clears the island flag of every body of the island.
PostSolveCleanup_AllBodies(h, island) ==
    [h EXCEPT !.b = [b \in BodyId |->
        IF b \in Range(island.bodies)
        THEN [h.b[b] EXCEPT !.islandFlag = FALSE]
        ELSE h.b[b]]]

\* Lines 536-545: allow static bodies to participate in other islands.
PostSolveCleanup(h, island) ==
    [h EXCEPT !.b = [b \in BodyId |->
        IF b \in Range(island.bodies) /\ h.b[b].type = "cb2_staticBody"
        THEN [h.b[b] EXCEPT !.islandFlag = FALSE]
        ELSE h.b[b]]]

\* Lines 388-415.
SolveBegin ==
    /\ pc = "solve"
    /\ UNCHANGED <<ret, fj>>
    /\ Store(ClearIslandFlags(Heap))
    /\ seed' = 1
    /\ islands' = <<>>
    /\ awake0' = {b \in Range(m_bodyList) : body[b].awake}
    /\ pc' = "solveLoop"
    /\ UNCHANGED <<m_flags, m_stepComplete, settingVars, m_inv_dt0, step, events, toiIsland,
                   stepCount>>

\* One iteration of the loop over the seeds (lines 416-546): the candidate is
\* passed over, or an island is built from it, solved and cleaned up.
SolveSeed ==
    /\ pc = "solveLoop"
    /\ seed <= Len(m_bodyList)
    /\ UNCHANGED <<ret, fj>>
    /\ seed' = seed + 1
    /\ IF ~IsSeed(Heap, m_bodyList[seed])
       THEN UNCHANGED <<heapVars, islands>>
       ELSE LET st == BuildIsland(Heap, m_bodyList[seed])
            IN /\ \E h \in IslandSolve(st.h, st.island, step.dt, m_allowSleep) :
                      Store(PostSolveCleanup(h, st.island))
               /\ islands' = Append(islands, [bodies |-> st.island.bodies,
                                              contacts |-> st.island.contacts,
                                              joints |-> st.island.joints,
                                              overflow |-> st.overflow])
    /\ UNCHANGED <<m_flags, m_stepComplete, settingVars, m_inv_dt0, pc, step,
                   events, toiIsland, awake0, stepCount>>

\* Lines 548-574: the fixtures of the bodies that moved are synchronized and
\* new contacts are looked for.
SolveEnd ==
    /\ pc = "solveLoop"
    /\ seed > Len(m_bodyList)
    /\ UNCHANGED <<ret, fj>>
    /\ \E h \in FindNewContacts(Heap) : Store(h)
    /\ pc' = PhaseAfterSolve
    /\ seed' = 1
    /\ islands' = <<>>
    /\ awake0' = {}
    /\ UNCHANGED <<m_flags, m_stepComplete, settingVars, m_inv_dt0, step,
                   events, toiIsland, stepCount>>

(***************************************************************************)
(* cb2World::SolveTOI                                                      *)
(***************************************************************************)
AlphaOne == 3         \* the time fraction 1.0, in units of the alpha grid
TenEpsilon == 2       \* 10 * cb2_epsilon, in units of the alpha grid
cb2_maxSubSteps == 1
cb2_maxTOIContacts == 2   \* line 579: the island holds this many contacts and
                          \* twice as many bodies

\* cb2Sweep::Advance: move the interpolation origin to alpha.
SweepAdvance(x, alpha) ==
    IF x.alpha0 >= AlphaOne THEN [x EXCEPT !.alpha0 = alpha]
    ELSE [x EXCEPT !.c0 = x.c0 + ((alpha - x.alpha0) * (x.c - x.c0))
                                    \div (AlphaOne - x.alpha0),
                   !.alpha0 = alpha]

\* A body that is advanced to the end of the step.
BodyAdvance_ToEnd(x, alpha) ==
    LET y == SweepAdvance(x, AlphaOne) IN [y EXCEPT !.c = y.c0, !.p = y.c0]

\* cb2Body::Advance: advance the sweep and take the new origin as position.
BodyAdvance(x, alpha) ==
    LET y == SweepAdvance(x, alpha) IN [y EXCEPT !.c = y.c0, !.p = y.c0]

\* A body that stays where Advance has put it.
RestoreSweep_Keep(x, backup) == x

RestoreSweep(x, backup) ==
    [x EXCEPT !.c = backup.c, !.c0 = backup.c0, !.alpha0 = backup.alpha0,
              !.p = backup.c]

\* Lines 581-596.
InvalidateTOI(h) ==
    [h EXCEPT !.b = [b \in BodyId |->
                        IF b \in Range(h.bl)
                        THEN [h.b[b] EXCEPT !.islandFlag = FALSE, !.alpha0 = 0]
                        ELSE h.b[b]],
              !.c = [c \in ContactId |->
                        IF c \in Range(h.cl)
                        THEN [h.c[c] EXCEPT !.toiFlag = FALSE, !.islandFlag = FALSE,
                                            !.toiCount = 0, !.toi = AlphaOne]
                        ELSE h.c[c]]]

\* A scan that takes every pair of bodies of which one is awake.
WantsTOI_AnyPair(h, x) ==
    LET typeA == h.b[x.bodyA].type
        typeB == h.b[x.bodyB].type
        activeA == h.b[x.bodyA].awake /\ typeA # "cb2_staticBody"
        activeB == h.b[x.bodyB].awake /\ typeB # "cb2_staticBody"
    IN /\ ~x.sensor
       /\ activeA \/ activeB

\* Lines 630-659: is a time of impact computed for contact x?
WantsTOI(h, x) ==
    LET typeA == h.b[x.bodyA].type
        typeB == h.b[x.bodyB].type
        activeA == h.b[x.bodyA].awake /\ typeA # "cb2_staticBody"
        activeB == h.b[x.bodyB].awake /\ typeB # "cb2_staticBody"
        collideA == h.b[x.bodyA].bullet \/ typeA # "cb2_dynamicBody"
        collideB == h.b[x.bodyB].bullet \/ typeB # "cb2_dynamicBody"
    IN /\ ~x.sensor
       /\ activeA \/ activeB
       /\ collideA \/ collideB

\* Lines 661-674: put the two sweeps onto the same time interval.
AlignSweeps(h, x) ==
    LET aA == h.b[x.bodyA].alpha0
        aB == h.b[x.bodyB].alpha0
    IN IF aA < aB THEN [h EXCEPT !.b[x.bodyA] = SweepAdvance(@, aB)]
       ELSE IF aB < aA THEN [h EXCEPT !.b[x.bodyB] = SweepAdvance(@, aA)]
       ELSE h

\* No limit on the events of a contact.
Exhausted_Never(x) == FALSE

\* Lines 613-617: prevent excessive sub-stepping.
Exhausted(x) == x.toiCount > cb2_maxSubSteps

\* Lines 605-713: the scan for the first time of impact over the contacts cs.
\* cb2TimeOfImpact may answer any beta in [0, 1], or "not touching", so the
\* time of impact of a contact is any alpha from alpha0 to 1.
RECURSIVE FindMinTOI(_, _, _, _)
FindMinTOI(h, cs, minContact, minAlpha) ==
    IF cs = <<>>
    THEN {[h |-> h, minContact |-> minContact, minAlpha |-> minAlpha]}
    ELSE LET c == Head(cs)
             x == h.c[c]
             skip == FindMinTOI(h, Tail(cs), minContact, minAlpha)
             Consider(h1, alpha) ==
                 IF alpha < minAlpha
                 THEN FindMinTOI(h1, Tail(cs), c, alpha)
                 ELSE FindMinTOI(h1, Tail(cs), minContact, minAlpha)
         IN IF ~x.enabled THEN skip
            ELSE IF Exhausted(x) THEN skip
            ELSE IF x.toiFlag THEN Consider(h, x.toi)
            ELSE IF ~WantsTOI(h, x) THEN skip
            ELSE LET h1 == AlignSweeps(h, x)
                     alpha0 == h1.b[x.bodyA].alpha0
                 IN UNION {Consider([h1 EXCEPT !.c[c].toi = alpha,
                                               !.c[c].toiFlag = TRUE], alpha) :
                             alpha \in {a \in 0..AlphaOne : a >= alpha0}}

\* Lines 715: are there no more TOI events?
NoMoreEvents(minContact, minAlpha) ==
    minContact = NULL \/ AlphaOne - TenEpsilon < minAlpha

\* Lines 771-852: the contacts ces of body b (one of the two bodies of the
\* event) are tried for the TOI island.
RECURSIVE AddNeighbours(_, _, _, _)
AddNeighbours(st, b, ces, minAlpha) ==
    IF ces = <<>> THEN {st}
    ELSE LET c == Head(ces)
             x == st.h.c[c]
             other == Other(x, b)
             rest(st1) == AddNeighbours(st1, b, Tail(ces), minAlpha)
         IN IF Len(st.island.bodies) = 2 * cb2_maxTOIContacts THEN {st}
            ELSE IF Len(st.island.contacts) = cb2_maxTOIContacts THEN {st}
            ELSE IF x.islandFlag THEN rest(st)
            ELSE IF st.h.b[other].type = "cb2_dynamicBody"
                    /\ ~st.h.b[b].bullet /\ ~st.h.b[other].bullet THEN rest(st)
            ELSE IF x.sensor THEN rest(st)
            ELSE LET backup == st.h.b[other]
                     h1 == IF ~backup.islandFlag
                           THEN [st.h EXCEPT !.b[other] = BodyAdvance(@, minAlpha)]
                           ELSE st.h
                 IN UNION {
                      IF ~h2.c[c].enabled \/ ~h2.c[c].touching
                      THEN rest([st EXCEPT !.h = [h2 EXCEPT !.b[other] =
                                                     RestoreSweep(@, backup)]])
                      ELSE LET h3 == [h2 EXCEPT !.c[c].islandFlag = TRUE]
                               st3 == [st EXCEPT !.h = h3,
                                                 !.island.contacts = Append(@, c)]
                           IN IF h3.b[other].islandFlag THEN rest(st3)
                              ELSE rest([st3 EXCEPT
                                  !.h.b[other].islandFlag = TRUE,
                                  !.h.b[other].awake =
                                      @ \/ h3.b[other].type # "cb2_staticBody",
                                  !.island.bodies = Append(@, other)]) :
                      h2 \in ContactUpdate(h1, c)}

\* Lines 751-854: the island of one TOI event.
BuildTOIIsland(h, minContact, minAlpha) ==
    LET bA == h.c[minContact].bodyA
        bB == h.c[minContact].bodyB
        h1 == [SetAwake(SetAwake(h, bA), bB) EXCEPT
                  !.b[bA].islandFlag = TRUE, !.b[bB].islandFlag = TRUE,
                  !.c[minContact].islandFlag = TRUE]
        st0 == [h |-> h1, island |-> [bodies |-> <<bA, bB>>,
                                      contacts |-> <<minContact>>,
                                      joints |-> <<>>]]
        NeighboursOf(st, b) ==
            IF st.h.b[b].type = "cb2_dynamicBody"
            THEN AddNeighbours(st, b, ContactEdges(st.h, b), minAlpha)
            ELSE {st}
    IN UNION {NeighboursOf(st1, bB) : st1 \in NeighboursOf(st0, bA)}

\* cb2Island::SolveTOI, as far as cb2World depends on it: the non-static
\* bodies of the island move for the rest of the step, (1 - minAlpha) * dt.
IslandSolveTOI(h, island, minAlpha, dt) ==
    [h EXCEPT !.b = [b \in BodyId |->
        IF b \in Range(island.bodies) /\ h.b[b].type # "cb2_staticBody"
        THEN [h.b[b] EXCEPT !.c0 = h.b[b].c,
                            !.c = h.b[b].c
                                  + ((AlphaOne - minAlpha) * dt * h.b[b].v)
                                    \div AlphaOne,
                            !.p = h.b[b].c
                                  + ((AlphaOne - minAlpha) * dt * h.b[b].v)
                                    \div AlphaOne]
        ELSE h.b[b]]]

\* A reset of the flags of the bodies alone.
ResetTOIIsland_BodiesOnly(h, island) ==
    [h EXCEPT !.b = [b \in BodyId |->
                        IF b \in Range(island.bodies)
                        THEN [h.b[b] EXCEPT !.islandFlag = FALSE]
                        ELSE h.b[b]]]

\* Lines 865-883: reset the island flags; the contacts of a displaced dynamic
\* body lose their cached TOI.
ResetTOIIsland(h, island) ==
    LET displaced == {b \in Range(island.bodies) : h.b[b].type = "cb2_dynamicBody"}
    IN [h EXCEPT !.b = [b \in BodyId |->
                           IF b \in Range(island.bodies)
                           THEN [h.b[b] EXCEPT !.islandFlag = FALSE]
                           ELSE h.b[b]],
                 !.c = [c \in ContactId |->
                           IF c \in Range(h.cl)
                              /\ (h.c[c].bodyA \in displaced
                                  \/ h.c[c].bodyB \in displaced)
                           THEN [h.c[c] EXCEPT !.toiFlag = FALSE,
                                               !.islandFlag = FALSE]
                           ELSE h.c[c]]]

\* SolveTOI that starts every call from alpha0 = 0 and fresh counters.
TOIBegin_ResetAlways ==
    /\ pc = "toi"
    /\ UNCHANGED <<ret, fj>>
    /\ Store(InvalidateTOI(Heap)) /\ events' = <<>>
    /\ toiIsland' = NoTOIIsland
    /\ pc' = "toiLoop"
    /\ UNCHANGED <<m_flags, m_stepComplete, settingVars, m_inv_dt0, step, seed,
                   islands, awake0, stepCount>>

\* Lines 577-596.
TOIBegin ==
    /\ pc = "toi"
    /\ UNCHANGED <<ret, fj>>
    /\ IF m_stepComplete
       THEN Store(InvalidateTOI(Heap)) /\ events' = <<>>
       ELSE UNCHANGED <<heapVars, events>>
    /\ toiIsland' = NoTOIIsland
    /\ pc' = "toiLoop"
    /\ UNCHANGED <<m_flags, m_stepComplete, settingVars, m_inv_dt0, step, seed,
                   islands, awake0, stepCount>>

\* A sub-step that keeps the settings of the step.
SubStep_AsStep(s, minAlpha) ==
    [dt |-> <<(AlphaOne - minAlpha) * s.dt, AlphaOne>>,
     inv_dt |-> FloatDiv(QInt(AlphaOne), QInt((AlphaOne - minAlpha) * s.dt)),
     dtRatio |-> s.dtRatio,
     positionIterations |-> s.positionIterations,
     velocityIterations |-> s.velocityIterations,
     warmStarting |-> s.warmStarting]

\* Lines 856-862: the cb2TimeStep of the island of a TOI event. dt is the
\* fraction ((1 - minAlpha) * step.dt) / 1 on the alpha grid.
SubStep(s, minAlpha) ==
    [dt |-> <<(AlphaOne - minAlpha) * s.dt, AlphaOne>>,
     inv_dt |-> FloatDiv(QInt(AlphaOne), QInt((AlphaOne - minAlpha) * s.dt)),
     dtRatio |-> <<1, 1>>,
     positionIterations |-> 20,
     velocityIterations |-> s.velocityIterations,
     warmStarting |-> FALSE]

\* cb2Island::Add(cb2Body*) gives a body its m_islandIndex, counted from 0.
IslandIndex(bodies, b) == (CHOOSE i \in DOMAIN bodies : bodies[i] = b) - 1

\* Line 863: island.SolveTOI(subStep, bA->m_islandIndex, bB->m_islandIndex).
SolvedIsland(island, bA, bB, subStep) ==
    [bodies |-> island.bodies, contacts |-> island.contacts,
     joints |-> island.joints, subStep |-> subStep,
     toiIndexA |-> IslandIndex(island.bodies, bA),
     toiIndexB |-> IslandIndex(island.bodies, bB)]

\* An event that is not counted.
CountEvent_NoCount(h, minContact) ==
    [h EXCEPT !.c[minContact].toiFlag = FALSE]

\* Lines 736-737: the cached time of impact of the event's contact is
\* dropped and the event is counted.
CountEvent(h, minContact) ==
    [h EXCEPT !.c[minContact].toiFlag = FALSE,
              !.c[minContact].toiCount = @ + 1]

\* One iteration of the event loop (lines 599-894).
TOIEvent ==
    /\ pc = "toiLoop"
    /\ UNCHANGED <<ret, fj>>
    /\ \E found \in FindMinTOI(Heap, m_contactList, NULL, AlphaOne) :
         IF NoMoreEvents(found.minContact, found.minAlpha)
         THEN \* No more TOI events. Done!
              /\ Store(found.h)
              /\ m_stepComplete' = TRUE
              /\ pc' = "finish"
              /\ toiIsland' = NoTOIIsland
              /\ UNCHANGED events
         ELSE LET c == found.minContact
                  bA == found.h.c[c].bodyA
                  bB == found.h.c[c].bodyB
                  backup1 == found.h.b[bA]
                  backup2 == found.h.b[bB]
                  \* Advance the bodies to the TOI.
                  h1 == [found.h EXCEPT !.b[bA] = BodyAdvance(@, found.minAlpha),
                                        !.b[bB] = BodyAdvance(@, found.minAlpha)]
              IN /\ events' = Append(events, <<c, found.minAlpha, stepCount>>)
                 /\ \E h2 \in ContactUpdate(h1, c) :
                   LET h3 == CountEvent(h2, c)
                   IN IF ~h3.c[c].enabled \/ ~h3.c[c].touching
                      THEN \* Restore the sweeps.
                           /\ Store([h3 EXCEPT !.c[c].enabled = FALSE,
                                               !.b[bA] = RestoreSweep(@, backup1),
                                               !.b[bB] = RestoreSweep(@, backup2)])
                           /\ pc' = "toiLoop"
                           /\ toiIsland' = NoTOIIsland
                           /\ UNCHANGED m_stepComplete
                      ELSE \E st \in BuildTOIIsland(h3, c, found.minAlpha) :
                           \E h4 \in FindNewContacts(
                                        ResetTOIIsland(
                                          IslandSolveTOI(st.h, st.island,
                                                         found.minAlpha, step.dt),
                                          st.island)) :
                             /\ Store(h4)
                             /\ toiIsland' =
                                   SolvedIsland(st.island, bA, bB,
                                                SubStep(step, found.minAlpha))
                             /\ IF m_subStepping
                                THEN m_stepComplete' = FALSE /\ pc' = "finish"
                                ELSE UNCHANGED m_stepComplete /\ pc' = "toiLoop"
    /\ UNCHANGED <<m_flags, settingVars, m_inv_dt0, step, seed, islands,
                   awake0, stepCount>>

(***************************************************************************)
(* cb2FrictionJoint                                                        *)
(***************************************************************************)
MaxJointSteps == 2
MaxSkippedSteps == 1
MaxIterations == 2

\* The world specifications hold no friction joint.
NoFrictionJoint == [pc |-> "none"]

\* <<maxForce, maxTorque>> of a cb2FrictionJointDef: the constructor copies
\* them as they are.
DefLimits == {<<-5, -1>>, <<5, 2>>}

\* The values SetMaxForce and SetMaxTorque are called with.
SetValues == {0}

\* The two bodies: inverse masses and inertias, and the anchors in world
\* orientation relative to the centres.
BodyPairs ==
    {[invMassA |-> 1, invIA |-> 1, invMassB |-> 1, invIB |-> 1,
      rA |-> <<0, 0>>, rB |-> <<0, 0>>],
     [invMassA |-> 1, invIA |-> 1, invMassB |-> 0, invIB |-> 0,
      rA |-> <<1, 0>>, rB |-> <<0, 0>>]}

\* data.velocities of the two bodies: <<vA, wA, vB, wB>>.
VelocityValues ==
    {<<VInt(0, 0), QInt(0), VInt(24, 32), QInt(-6)>>,
     <<VInt(40, 0), QInt(8), VInt(0, 0), QInt(0)>>}

\* The dt of the Step calls.  The float (1 / 13) * 13 is not 1.
JointDtValues == {0, 1, 13}

\* Lines 43-54: the constructor.  dt is the data.step.dt of the last call of
\* InitVelocityConstraints; applied and start record what the calls of
\* SolveVelocityConstraints of a step have done to body A and what they
\* started from.
FrictionJoint(def, pair) ==
    [pc |-> "ready", steps |-> 0, skipped |-> 0, iterations |-> 0,
     m_maxForce |-> QInt(def[1]), m_maxTorque |-> QInt(def[2]),
     m_linearImpulse |-> VZero, m_angularImpulse |-> QZero,
     bodies |-> pair,
     m_linearMass |-> <<VZero, VZero>>, m_angularMass |-> QZero,
     velocities |-> <<VZero, QZero, VZero, QZero>>,
     dt |-> QZero,
     sum |-> VZero,
     start |-> <<VZero, QZero>>, applied |-> <<VZero, QZero>>]

\* cb2World::Step as the joint sees it, lines 908-935: the time step is filled
\* in; with dt > 0 Solve puts the island of the joint together and solves it.
FrictionStepEnter(dt) ==
    /\ fj.pc = "ready"
    /\ IF dt > 0 THEN fj.steps < MaxJointSteps ELSE fj.skipped < MaxSkippedSteps
    /\ step' = TimeStep(dt, 8, 3)
    /\ fj' = [fj EXCEPT !.pc = IF dt > 0 THEN "init" ELSE "skipped"]
    /\ UNCHANGED <<heapVars, m_flags, m_stepComplete, settingVars, m_inv_dt0,
                   pc, seed, islands, events, toiIsland, awake0, stepCount, ret>>

\* A warm start that forgets the accumulated impulses.
WarmStart_Discard(j, st) == <<VZero, QZero>>

\* Lines 107-123: the accumulated impulses <<linear, angular>> a step starts
\* from.
WarmStart(j, st) ==
    IF st.warmStarting
    THEN \* Scale impulses to support a variable time step.
         <<VScale(st.dtRatio, j.m_linearImpulse),
           QMul(st.dtRatio, j.m_angularImpulse)>>
    ELSE <<VZero, QZero>>

\* Lines 56-129.
InitVelocityConstraints(velocities) ==
    /\ fj.pc = "init"
    /\ LET vA == velocities[1]
           wA == velocities[2]
           vB == velocities[3]
           wB == velocities[4]
           m_rA == VInt(fj.bodies.rA[1], fj.bodies.rA[2])
           m_rB == VInt(fj.bodies.rB[1], fj.bodies.rB[2])
           mA == QInt(fj.bodies.invMassA)
           mB == QInt(fj.bodies.invMassB)
           iA == QInt(fj.bodies.invIA)
           iB == QInt(fj.bodies.invIB)
           \* Compute the effective mass matrix.
           m00 == QAdd(QAdd(mA, mB),
                       QAdd(QMul(iA, QMul(m_rA[2], m_rA[2])),
                            QMul(iB, QMul(m_rB[2], m_rB[2]))))
           m01 == QSub(QNeg(QMul(iA, QMul(m_rA[1], m_rA[2]))),
                       QMul(iB, QMul(m_rB[1], m_rB[2])))
           m11 == QAdd(QAdd(mA, mB),
                       QAdd(QMul(iA, QMul(m_rA[1], m_rA[1])),
                            QMul(iB, QMul(m_rB[1], m_rB[1]))))
           K == << <<m00, m01>>, <<m01, m11>> >>
           angularMass == QAdd(iA, iB)
           warm == WarmStart(fj, step)
           linearImpulse == warm[1]
           angularImpulse == warm[2]
           P == linearImpulse
       IN fj' = [fj EXCEPT
             !.pc = "solving",
             !.iterations = 0,
             !.dt = QInt(step.dt),
             !.m_linearMass = Inverted(K),
             !.m_angularMass = IF QLess(QZero, angularMass)
                               THEN QInv(angularMass) ELSE angularMass,
             !.m_linearImpulse = linearImpulse,
             !.m_angularImpulse = angularImpulse,
             !.sum = linearImpulse,
             !.start = warm,
             !.applied = <<VZero, QZero>>,
             !.velocities =
                 IF step.warmStarting
                 THEN <<VSub(vA, VScale(mA, P)),
                        QSub(wA, QMul(iA, QAdd(cb2Cross(m_rA, P), angularImpulse))),
                        VAdd(vB, VScale(mB, P)),
                        QAdd(wB, QMul(iB, QAdd(cb2Cross(m_rB, P), angularImpulse)))>>
                 ELSE velocities]
    /\ UNCHANGED <<heapVars, m_flags, m_stepComplete, settingVars, m_inv_dt0,
                   stepVars, ret>>

\* Lines 143-150 on joint state j with data.velocities as given: the
\* accumulated angular impulse is clamped.
AngularImpulse(j, velocities) ==
    LET wA == velocities[2]
        wB == velocities[4]
        Cdot == QSub(wB, wA)
        impulse == QNeg(QMul(j.m_angularMass, Cdot))
        maxImpulse == QMul(j.dt, j.m_maxTorque)
    IN cb2Clamp(QAdd(j.m_angularImpulse, impulse), QNeg(maxImpulse), maxImpulse)

\* Lines 151-154: the angular velocities <<wA, wB>> after the angular part.
AngularVelocities(j, velocities) ==
    LET impulse == QSub(AngularImpulse(j, velocities), j.m_angularImpulse)
    IN <<QSub(velocities[2], QMul(QInt(j.bodies.invIA), impulse)),
         QAdd(velocities[4], QMul(QInt(j.bodies.invIB), impulse))>>

\* Lines 159-163: the accumulated linear impulse before it is clamped, w the
\* angular velocities <<wA, wB>> that the angular part has left.
LinearSum(j, velocities, w) ==
    LET vA == velocities[1]
        vB == velocities[3]
        m_rA == VInt(j.bodies.rA[1], j.bodies.rA[2])
        m_rB == VInt(j.bodies.rB[1], j.bodies.rB[2])
        Cdot == VSub(VSub(VAdd(vB, cb2CrossSV(w[2], m_rB)), vA),
                     cb2CrossSV(w[1], m_rA))
        impulse == VNeg(cb2Mul(j.m_linearMass, Cdot))
    IN VAdd(j.m_linearImpulse, impulse)

\* Lines 167-171: the accumulated linear impulse u is clamped.
ClampLinear(u, maxImpulse) ==
    IF QLess(QMul(maxImpulse, maxImpulse), LengthSquared(u))
    THEN VScale(maxImpulse, Normalize(u))
    ELSE u

\* The solved increment applied as it is, whatever the clamp has made of the
\* accumulated impulse sum.
AppliedLinear_RawIncrement(j, sum) == VSub(sum, j.m_linearImpulse)

\* Line 173: the linear impulse that is applied to the bodies, sum the
\* accumulated impulse of line 163.
AppliedLinear(j, sum) ==
    VSub(ClampLinear(sum, QMul(j.dt, j.m_maxForce)), j.m_linearImpulse)

\* Lines 131-186: the joint state after the call, with the values of w, sum
\* and impulse that the lines 151-154, 163 and 173 have computed.
SolveVelocity(j, velocities, w, sum, impulse) ==
    LET vA == velocities[1]
        vB == velocities[3]
        m_rA == VInt(j.bodies.rA[1], j.bodies.rA[2])
        m_rB == VInt(j.bodies.rB[1], j.bodies.rB[2])
        mA == QInt(j.bodies.invMassA)
        mB == QInt(j.bodies.invMassB)
        iA == QInt(j.bodies.invIA)
        iB == QInt(j.bodies.invIB)
    IN [j EXCEPT
          !.iterations = @ + 1,
          !.m_angularImpulse = AngularImpulse(j, velocities),
          !.m_linearImpulse = ClampLinear(sum, QMul(j.dt, j.m_maxForce)),
          !.sum = sum,
          !.velocities =
              <<VSub(vA, VScale(mA, impulse)),
                QSub(w[1], QMul(iA, cb2Cross(m_rA, impulse))),
                VAdd(vB, VScale(mB, impulse)),
                QAdd(w[2], QMul(iB, cb2Cross(m_rB, impulse)))>>]

\* The impulses <<linear, angular>> body A has received when its velocities
\* went from those of before to those of after.
Received(bodies, before, after) ==
    LET linear == VScale(QInv(QInt(bodies.invMassA)), VSub(before[1], after[1]))
        m_rA == VInt(bodies.rA[1], bodies.rA[2])
    IN <<linear,
         QSub(QMul(QInv(QInt(bodies.invIA)), QSub(before[2], after[2])),
              cb2Cross(m_rA, linear))>>

\* The velocities a call of SolveVelocityConstraints may find: those it left
\* itself, or those another constraint of the island has left, as far as the
\* length that line 169 takes is a fraction.
IncomingVelocities ==
    {v \in {fj.velocities} \cup VelocityValues :
        \E w \in {AngularVelocities(fj, v)} :
           \E sum \in {LinearSum(fj, v, w)} : HasLength(sum)}

SolveVelocityConstraints(velocities) ==
    /\ fj.pc = "solving"
    /\ fj.iterations < MaxIterations
    /\ \E w \in {AngularVelocities(fj, velocities)} :
       \E sum \in {LinearSum(fj, velocities, w)} :
       \E impulse \in {AppliedLinear(fj, sum)} :
       \E j \in {SolveVelocity(fj, velocities, w, sum, impulse)} :
       \E got \in {Received(fj.bodies, velocities, j.velocities)} :
          fj' = [j EXCEPT !.applied = <<VAdd(@[1], got[1]), QAdd(@[2], got[2])>>]
    /\ UNCHANGED <<heapVars, m_flags, m_stepComplete, settingVars, m_inv_dt0,
                   stepVars, ret>>

\* The rest of cb2World::Step as the joint sees it, lines 943-960: the island
\* of SolveTOI has no room for a joint (line 579), Step remembers the inverse
\* time step of a step with dt > 0 (line 952), ClearForces works on bodies.
FrictionStepEnd ==
    /\ \/ fj.pc = "solving" /\ fj.iterations > 0
       \/ fj.pc = "skipped"
    /\ fj' = IF fj.pc = "skipped"
             THEN [fj EXCEPT !.pc = "ready", !.skipped = @ + 1]
             ELSE [fj EXCEPT !.pc = "ready", !.steps = @ + 1]
    /\ m_inv_dt0' = IF step.dt > 0 THEN step.inv_dt ELSE m_inv_dt0
    /\ step' = NoStep
    /\ UNCHANGED <<heapVars, m_flags, m_stepComplete, settingVars,
                   pc, seed, islands, events, toiIsland, awake0, stepCount, ret>>

\* Lines 215-219 and 226-230: the setters assert a limit that is not negative.
SetMaxForce(force) ==
    /\ fj.pc = "ready"
    /\ force >= 0
    /\ QInt(force) # fj.m_maxForce
    /\ fj' = [fj EXCEPT !.m_maxForce = QInt(force)]
    /\ UNCHANGED <<heapVars, m_flags, m_stepComplete, settingVars, m_inv_dt0,
                   stepVars, ret>>

SetMaxTorque(torque) ==
    /\ fj.pc = "ready"
    /\ torque >= 0
    /\ QInt(torque) # fj.m_maxTorque
    /\ fj' = [fj EXCEPT !.m_maxTorque = QInt(torque)]
    /\ UNCHANGED <<heapVars, m_flags, m_stepComplete, settingVars, m_inv_dt0,
                   stepVars, ret>>

\* cb2World::SetWarmStarting, between the steps of the joint.
SetWarmStarting(flag) ==
    /\ fj.pc = "ready"
    /\ flag # m_warmStarting
    /\ m_warmStarting' = flag
    /\ UNCHANGED <<heapVars, m_flags, m_stepComplete, m_continuousPhysics,
                   m_subStepping, m_allowSleep, m_destructionListener,
                   m_broadPhase, m_inv_dt0, stepVars, fj, ret>>

(***************************************************************************)
(* The world from its constructor on.                                      *)
(***************************************************************************)
Init ==
    /\ m_bodyList = <<>>
    /\ m_bodyCount = 0
    /\ body = [b \in BodyId |-> FreeBody]
    /\ m_jointList = <<>>
    /\ m_jointCount = 0
    /\ joint = [j \in JointId |-> FreeJoint]
    /\ jointEdges = [b \in BodyId |-> <<>>]
    /\ links = NoLinks
    /\ m_contactList = <<>>
    /\ contact = [c \in ContactId |-> FreeContact]
    /\ m_flags = [newFixture |-> FALSE, locked |-> FALSE, clearForces |-> TRUE]
    /\ m_stepComplete = TRUE
    /\ m_continuousPhysics = TRUE
    /\ m_subStepping = FALSE
    /\ m_warmStarting = TRUE
    /\ m_allowSleep = TRUE
    /\ m_destructionListener = NoListener
    /\ m_broadPhase = 0
    /\ m_inv_dt0 \in {<<0, 1>>, <<1, 2>>}
    /\ pc = "idle"
    /\ step = NoStep
    /\ seed = 1
    /\ islands = <<>>
    /\ events = <<>>
    /\ toiIsland = NoTOIIsland
    /\ awake0 = {}
    /\ stepCount = 0
    /\ ret = "none"
    /\ fj = NoFrictionJoint

Next ==
    \/ \E def \in BodyDefs : CreateBody(def)
    \/ \E b \in BodyId : DestroyBody(b)
    \/ \E def \in JointDefs : CreateJoint(def)
    \/ \E j \in JointId : DestroyJoint(j)
    \/ \E b \in BodyId, isSensor \in SensorValues : CreateFixture(b, isSensor)
    \/ \E b \in BodyId : ApplyForce(b)
    \/ \E flag \in BOOLEAN : SetAutoClearForces(flag)
    \/ \E flag \in BOOLEAN : SetContinuousPhysics(flag)
    \/ \E dt \in DtValues, it \in IterationValues : StepEnter(dt, it[1], it[2])
    \/ StepFindNewContacts
    \/ StepCollide
    \/ SolveBegin
    \/ SolveSeed
    \/ SolveEnd
    \/ TOIBegin
    \/ TOIEvent
    \/ StepFinish

Spec == Init /\ [][Next]_vars

(***************************************************************************)
(* The lock and the phases of Step.                                        *)
(***************************************************************************)
\* The transitions that are steps of cb2World::Step itself.
StepAction ==
    \/ \E dt \in DtValues, it \in IterationValues : StepEnter(dt, it[1], it[2])
    \/ StepFindNewContacts
    \/ StepCollide
    \/ SolveBegin
    \/ SolveSeed
    \/ SolveEnd
    \/ TOIBegin
    \/ TOIEvent
    \/ StepFinish

\* The dt of the Step call a transition belongs to.
StepDt == IF pc = "idle" THEN step'.dt ELSE step.dt

LiveBodies == Range(m_bodyList)
LiveContacts == Range(m_contactList)

\* C1: while the world is locked, CreateBody and CreateJoint return NULL,
\* DestroyBody and DestroyJoint return immediately, and none of the four
\* changes the body list, the joint list, the counts, a joint edge, a contact
\* or any flag of a body (no body is woken).  Each conjunct reads: the step
\* has left the heap and the result as stated, or it is no such call.
C1_LockedCallsAreNoOps ==
    [][IsLocked =>
         LET heapSame == UNCHANGED heapVars
         IN /\ \/ heapSame /\ ret' = "NULL"
               \/ \A def \in BodyDefs : ~CreateBody(def)
            /\ \/ heapSame /\ ret' = "NULL"
               \/ \A def \in JointDefs : ~CreateJoint(def)
            /\ \/ heapSame /\ ret' = ret
               \/ \A b \in BodyId : ~DestroyBody(b)
            /\ \/ heapSame /\ ret' = ret
               \/ \A j \in JointId : ~DestroyJoint(j)]_vars

\* A creation call was refused inside a Step of a world that holds a body
\* and a joint which a destroy call could have removed.
C1_Witness ==
    /\ IsLocked
    /\ pc \in {"solveLoop", "toiLoop"}
    /\ ret = "NULL"
    /\ m_bodyCount = MaxWorldBodies
    /\ m_jointCount > 0

\* C2: the world is locked for the whole of a Step call, the call of
\* FindNewContacts for newly added fixtures included, and unlocked outside.
C2_LockedThroughoutStep ==
    /\ pc # "idle" => m_flags.locked
    /\ pc = "idle" => ~m_flags.locked

\* C7: a Step with dt <= 0 runs Collide and neither Solve nor SolveTOI; it
\* builds no island, changes no velocity, position, sweep or TOI counter,
\* zeroes the forces exactly when e_clearForces is set, and leaves m_inv_dt0
\* as it was.
C7_ZeroDtStep ==
    [][(StepAction /\ StepDt <= 0) =>
         /\ pc = "idle" => pc' \in {"findNew", "collide"}
         /\ pc = "findNew" => pc' = "collide"
         /\ pc = "collide" => pc' = "finish"
         /\ pc = "finish" => pc' = "idle"
         /\ islands' = <<>>
         /\ \A b \in LiveBodies :
              /\ body'[b].v = body[b].v
              /\ body'[b].c = body[b].c
              /\ body'[b].c0 = body[b].c0
              /\ body'[b].alpha0 = body[b].alpha0
              /\ body'[b].force =
                    IF pc = "finish" /\ m_flags.clearForces THEN 0
                    ELSE body[b].force
         /\ \A c \in LiveContacts \cap Range(m_contactList') :
              /\ contact'[c].toiCount = contact[c].toiCount
              /\ contact'[c].toiFlag = contact[c].toiFlag
              /\ contact'[c].toi = contact[c].toi
         /\ m_inv_dt0' = m_inv_dt0]_vars

\* A Step with dt <= 0 has run Collide on a world with a remembered inverse
\* time step, a moving body and an applied force that is not to be cleared.
C7_Witness ==
    /\ pc = "finish"
    /\ step.dt <= 0
    /\ m_inv_dt0 # <<0, 1>>
    /\ ~m_flags.clearForces
    /\ \E b \in LiveBodies : body[b].force # 0

PhaseRank ==
    [p \in {"idle", "findNew", "collide", "solve", "solveLoop", "toi",
            "toiLoop", "finish"} |->
       CASE p = "idle" -> 0
         [] p = "findNew" -> 1
         [] p = "collide" -> 2
         [] p = "solve" -> 3
         [] p = "solveLoop" -> 4
         [] p = "toi" -> 5
         [] p = "toiLoop" -> 6
         [] p = "finish" -> 7]

\* C8: within one Step the phases run at most once each and in the order
\* Collide, Solve, SolveTOI, ClearForces: the contact list is updated before
\* any island is built, and the forces are cleared only after SolveTOI has
\* returned.
C8_PhaseOrder ==
    [][pc' # pc =>
         /\ PhaseRank[pc'] > PhaseRank[pc] \/ (pc = "finish" /\ pc' = "idle")
         /\ pc' = "collide" => pc \in {"idle", "findNew"}
         /\ pc' = "solve" => pc = "collide"
         /\ pc' = "solveLoop" => pc = "solve"
         /\ pc' = "toi" => pc \in {"collide", "solveLoop"}
         /\ pc' = "toiLoop" => pc = "toi"
         /\ (pc' = "toi" /\ pc = "collide") => ~m_stepComplete
         /\ pc' = "idle" => pc = "finish"]_vars

\* All four phases of one Step have run and the forces are about to be
\* cleared.
C8_Witness ==
    /\ pc = "finish"
    /\ step.dt > 0
    /\ m_continuousPhysics
    /\ m_stepComplete
    /\ m_flags.clearForces
    /\ \E b \in LiveBodies : body[b].force # 0 /\ body[b].c # body[b].c0

(***************************************************************************)
(* One Solve pass over a constraint graph.                                 *)
(***************************************************************************)
MaxLinks == 2

\* <<awake, active>> of a body when the pass begins.
SolveBodyStates == {<<TRUE, TRUE>>, <<FALSE, TRUE>>, <<TRUE, FALSE>>}

\* Bodies that are asleep or inactive when the pass begins.
MaxIdleBodies == 1
IdleBodies(states) == {b \in BodyId : states[b] # <<TRUE, TRUE>>}
SolveStates == {states \in [BodyId -> SolveBodyStates] :
                  Cardinality(IdleBodies(states)) <= MaxIdleBodies}
AwakeFlags == {awake \in [BodyId -> BOOLEAN] :
                 Cardinality({b \in BodyId : ~awake[b]}) <= MaxIdleBodies}

\* A link of the graph: a joint, or a contact that is solid (enabled, touching,
\* no sensor), disabled, not touching, or a sensor contact.
LinkKinds == {"joint", "solid", "disabled", "apart", "sensor"}
Links == {l \in [kind : LinkKinds, bodyA : BodyId, bodyB : BodyId] :
            l.bodyA < l.bodyB}
LinkSeqs == UNION {[1..n -> Links] : n \in 0..MaxLinks}

\* Contacts exist between active bodies of which one is dynamic.
LinkAllowed(h, l) ==
    IF l.kind = "joint"
    THEN TRUE
    ELSE /\ h.b[l.bodyA].active /\ h.b[l.bodyB].active
         /\ "cb2_dynamicBody" \in {h.b[l.bodyA].type, h.b[l.bodyB].type}

AddLink(h, l) ==
    IF l.kind = "joint"
    THEN LinkJoint(h, Min(JointId \ Range(h.jl)),
                   [bodyA |-> l.bodyA, bodyB |-> l.bodyB,
                    collideConnected |-> TRUE])
    ELSE LET c == Min(ContactId \ Range(h.cl))
         IN [h EXCEPT !.cl = <<c>> \o h.cl,
                      !.c[c] = [FreeContact EXCEPT
                                   !.bodyA = l.bodyA,
                                   !.bodyB = l.bodyB,
                                   !.enabled = (l.kind # "disabled"),
                                   !.touching = (l.kind # "apart"),
                                   !.sensor = (l.kind = "sensor")]]

RECURSIVE AddLinks(_, _)
AddLinks(h, ls) ==
    IF ls = <<>> THEN h ELSE AddLinks(AddLink(h, Head(ls)), Tail(ls))

LinksFit(ls) ==
    /\ Cardinality({i \in DOMAIN ls : ls[i].kind = "joint"}) <= MaxJoints
    /\ Cardinality({i \in DOMAIN ls : ls[i].kind # "joint"}) <= MaxContacts

\* The pointers after the bodies 1 to n have been created.
RECURSIVE LinkBodies(_, _)
LinkBodies(ln, n) == IF n = 0 THEN ln ELSE LinkBody(LinkBodies(ln, n - 1), n)

\* A world of MaxBodies bodies, created in the order of their numbers.
SolveWorld(types, states) ==
    [bl |-> [i \in 1..MaxBodies |-> MaxBodies + 1 - i],
     bc |-> MaxBodies,
     b |-> [b \in BodyId |->
              [NewBody([type |-> types[b], awake |-> states[b][1]])
                  EXCEPT !.active = states[b][2], !.fixture = "solid"]],
     jl |-> <<>>, jc |-> 0, j |-> [j \in JointId |-> FreeJoint],
     je |-> [b \in BodyId |-> <<>>],
     ln |-> LinkBodies(NoLinks, MaxBodies),
     cl |-> <<>>, c |-> [c \in ContactId |-> FreeContact]]

\* The island flags an earlier pass has left behind: those of the non-static
\* bodies, of the contacts and of the joints (lines 536-545 clear only the
\* flags of static bodies).
StaleFlags(h) ==
    [h EXCEPT !.b = [b \in BodyId |->
                       [h.b[b] EXCEPT !.islandFlag =
                                         (h.b[b].type # "cb2_staticBody")]],
              !.c = [c \in ContactId |->
                       [h.c[c] EXCEPT !.islandFlag = (c \in Range(h.cl))]],
              !.j = [j \in JointId |->
                       [h.j[j] EXCEPT !.islandFlag = (j \in Range(h.jl))]]]

\* Step has locked the world, Collide has run and Solve is entered.
SolveInit ==
    /\ \E types \in [BodyId -> BodyTypes], states \in SolveStates,
          ls \in LinkSeqs, stale \in BOOLEAN :
         \E h0 \in {SolveWorld(types, states)} :
            /\ LinksFit(ls)
            /\ \A i \in DOMAIN ls : LinkAllowed(h0, ls[i])
            /\ \E h \in {IF stale THEN StaleFlags(AddLinks(h0, ls))
                                   ELSE AddLinks(h0, ls)} :
                  /\ m_bodyList = h.bl
                  /\ m_bodyCount = h.bc
                  /\ body = h.b
                  /\ m_jointList = h.jl
                  /\ m_jointCount = h.jc
                  /\ joint = h.j
                  /\ jointEdges = h.je
                  /\ links = h.ln
                  /\ m_contactList = h.cl
                  /\ contact = h.c
    /\ m_flags = [newFixture |-> FALSE, locked |-> TRUE, clearForces |-> TRUE]
    /\ m_stepComplete = TRUE
    /\ m_continuousPhysics = TRUE
    /\ m_subStepping = FALSE
    /\ m_warmStarting = TRUE
    /\ m_allowSleep = TRUE
    /\ m_destructionListener = NoListener
    /\ m_broadPhase = 0
    /\ m_inv_dt0 = <<0, 1>>
    /\ pc = "solve"
    /\ step = [dt |-> 1, velocityIterations |-> 8, positionIterations |-> 3,
               inv_dt |-> <<1, 1>>, dtRatio |-> <<0, 1>>, warmStarting |-> TRUE]
    /\ seed = 1
    /\ islands = <<>>
    /\ events = <<>>
    /\ toiIsland = NoTOIIsland
    /\ awake0 = {}
    /\ stepCount = MaxSteps
    /\ ret = "none"
    /\ fj = NoFrictionJoint

SolveNext ==
    \/ SolveBegin
    \/ SolveSeed
    \/ SolveEnd

SpecSolve == SolveInit /\ [][SolveNext]_vars

(***************************************************************************)
(* SolveTOI on the worlds of three bodies and one or two contacts.         *)
(***************************************************************************)
\* <<type, awake, bullet>> of a body when SolveTOI is entered.
TOIBodyKinds ==
    {<<"cb2_staticBody", FALSE, FALSE>>,
     <<"cb2_kinematicBody", TRUE, FALSE>>,
     <<"cb2_dynamicBody", TRUE, TRUE>>,
     <<"cb2_dynamicBody", TRUE, FALSE>>,
     <<"cb2_dynamicBody", FALSE, FALSE>>}

\* The contacts: one between the bodies 1 and 2, and none or one between
\* the bodies 2 and 3.
TOILinkSeqs ==
    {ls \in LinkSeqs :
        /\ Len(ls) >= 1
        /\ \A i \in DOMAIN ls :
              /\ ls[i].kind \in {"solid", "disabled", "apart", "sensor"}
              /\ ls[i].bodyA = i /\ ls[i].bodyB = i + 1}

\* Solve has run: a solid contact between two bodies that are not static has
\* taken both into one island, which is awake or asleep as a whole.
Settled(h) ==
    \A c \in Range(h.cl) :
       (/\ h.c[c].enabled /\ h.c[c].touching /\ ~h.c[c].sensor
        /\ h.b[h.c[c].bodyA].type # "cb2_staticBody"
        /\ h.b[h.c[c].bodyB].type # "cb2_staticBody")
       => h.b[h.c[c].bodyA].awake = h.b[h.c[c].bodyB].awake

\* The island flags Solve leaves behind: on the bodies of its islands that
\* are not static (lines 536-545), which are the awake ones, and on the
\* contacts of its islands (line 477).
SolveFlags(h) ==
    LET inIsland(b) == h.b[b].awake /\ h.b[b].active
                       /\ h.b[b].type # "cb2_staticBody"
    IN [h EXCEPT !.b = [b \in BodyId |-> [h.b[b] EXCEPT !.islandFlag = inIsland(b)]],
                 !.c = [c \in ContactId |->
                          [h.c[c] EXCEPT !.islandFlag =
                              /\ c \in Range(h.cl)
                              /\ h.c[c].enabled /\ h.c[c].touching /\ ~h.c[c].sensor
                              /\ inIsland(h.c[c].bodyA) \/ inIsland(h.c[c].bodyB)]]]

\* The dt of the Step calls that go on with a step SolveTOI has left
\* incomplete.
TOIDtValues == {0, 1}

\* Step has locked the world, Collide and Solve have run and SolveTOI is
\* entered; one more call of Step may follow.
TOIInit ==
    /\ \E kinds \in [BodyId -> TOIBodyKinds], ls \in TOILinkSeqs :
         LET h0 == SolveWorld([b \in BodyId |-> kinds[b][1]],
                              [b \in BodyId |-> <<kinds[b][2], TRUE>>])
             h1 == [h0 EXCEPT !.b = [b \in BodyId |->
                                       [h0.b[b] EXCEPT !.bullet = kinds[b][3]]]]
         IN /\ \A i \in DOMAIN ls : LinkAllowed(h1, ls[i])
            /\ \E h \in {SolveFlags(AddLinks(h1, ls))} :
                  /\ Settled(h)
                  /\ m_bodyList = h.bl
                  /\ m_bodyCount = h.bc
                  /\ body = h.b
                  /\ m_jointList = h.jl
                  /\ m_jointCount = h.jc
                  /\ joint = h.j
                  /\ jointEdges = h.je
                  /\ links = h.ln
                  /\ m_contactList = h.cl
                  /\ contact = h.c
    /\ m_flags = [newFixture |-> FALSE, locked |-> TRUE, clearForces |-> TRUE]
    /\ m_stepComplete = TRUE
    /\ m_continuousPhysics = TRUE
    /\ m_subStepping \in BOOLEAN
    /\ m_warmStarting = TRUE
    /\ m_allowSleep = TRUE
    /\ m_destructionListener = NoListener
    /\ m_broadPhase = 0
    /\ m_inv_dt0 = <<0, 1>>
    /\ pc = "toi"
    /\ step = [dt |-> 1, velocityIterations |-> 8, positionIterations |-> 3,
               inv_dt |-> <<1, 1>>, dtRatio |-> <<0, 1>>, warmStarting |-> TRUE]
    /\ seed = 1
    /\ islands = <<>>
    /\ events = <<>>
    /\ toiIsland = NoTOIIsland
    /\ awake0 = {}
    /\ stepCount = MaxSteps - 1
    /\ ret = "none"
    /\ fj = NoFrictionJoint

\* Step is called again while the step is incomplete (sub-stepping).
TOIResume(dt) ==
    /\ ~m_stepComplete
    /\ StepEnter(dt, 8, 3)

TOINext ==
    \/ TOIBegin
    \/ TOIEvent
    \/ StepFinish
    \/ \E dt \in TOIDtValues : TOIResume(dt)
    \/ StepCollide

SpecTOI == TOIInit /\ [][TOINext]_vars

\* One Step call without sub-stepping on the worlds of one contact, with the
\* event loop of SolveTOI running on: a call that has reached the loop
\* executes its next iteration.
TOILiveInit ==
    /\ TOIInit
    /\ ~m_subStepping
    /\ Len(m_contactList) = 1

TOILiveNext ==
    \/ TOIBegin
    \/ TOIEvent
    \/ StepFinish

SpecTOILive == TOILiveInit /\ [][TOILiveNext]_vars /\ WF_vars(TOIEvent)
(***************************************************************************)
(* DestroyBody on the worlds of three bodies, joints and contacts, with    *)
(* and without a destruction listener.                                     *)
(***************************************************************************)
DestroyInit ==
    /\ \E types \in [BodyId -> BodyTypes], awake \in AwakeFlags, ls \in LinkSeqs :
         \E h0 \in {SolveWorld(types, [b \in BodyId |-> <<awake[b], TRUE>>])} :
            /\ LinksFit(ls)
            /\ \A i \in DOMAIN ls :
                  ls[i].kind \in {"joint", "solid"} /\ LinkAllowed(h0, ls[i])
            /\ \E h \in {AddLinks(h0, ls)} :
                  /\ m_bodyList = h.bl
                  /\ m_bodyCount = h.bc
                  /\ body = h.b
                  /\ m_jointList = h.jl
                  /\ m_jointCount = h.jc
                  /\ joint = h.j
                  /\ jointEdges = h.je
                  /\ links = h.ln
                  /\ m_contactList = h.cl
                  /\ contact = h.c
    /\ m_flags = [newFixture |-> FALSE, locked |-> FALSE, clearForces |-> TRUE]
    /\ m_stepComplete = TRUE
    /\ m_continuousPhysics = TRUE
    /\ m_subStepping = FALSE
    /\ m_warmStarting = TRUE
    /\ m_allowSleep = TRUE
    /\ m_destructionListener \in Listeners
    /\ m_broadPhase = 0
    /\ m_inv_dt0 = <<0, 1>>
    /\ pc = "idle"
    /\ step = NoStep
    /\ seed = 1
    /\ islands = <<>>
    /\ events = <<>>
    /\ toiIsland = NoTOIIsland
    /\ awake0 = {}
    /\ stepCount = 0
    /\ ret = "none"
    /\ fj = NoFrictionJoint

DestroyNext ==
    \/ \E b \in BodyId : DestroyBody(b)
    \/ \E j \in JointId : DestroyJoint(j)
    \/ \E listener \in Listeners : SetDestructionListener(listener)
    \/ \E def \in BodyDefs : CreateBody(def)
    \/ \E def \in JointDefs : CreateJoint(def)
    \/ \E b \in BodyId, isSensor \in SensorValues : CreateFixture(b, isSensor)

SpecDestroy == DestroyInit /\ [][DestroyNext]_vars

(***************************************************************************)
(* ShiftOrigin on the worlds of three bodies, joints and contacts, between *)
(* two steps and from a callback during a step.                            *)
(***************************************************************************)
OriginValues == {-1, 1, 2}

\* <<c0, c, linear velocity>> of a body: at rest, or moved by the last step.
ShiftBodyStates == {<<0, 0, 0>>, <<0, 1, 1>>, <<1, -1, -2>>}

ShiftInit ==
    /\ \E types \in [BodyId -> {"cb2_staticBody", "cb2_dynamicBody"}],
          states \in [BodyId -> ShiftBodyStates], ls \in LinkSeqs :
         \E h0 \in {SolveWorld(types, [b \in BodyId |-> <<TRUE, TRUE>>])} :
            /\ LinksFit(ls)
            /\ \A i \in DOMAIN ls :
                  ls[i].kind \in {"joint", "solid"} /\ LinkAllowed(h0, ls[i])
            /\ \A b \in BodyId :
                  types[b] = "cb2_staticBody" => states[b] = <<0, 0, 0>>
            /\ \E h \in {[AddLinks(h0, ls) EXCEPT !.b = [b \in BodyId |->
                            [@[b] EXCEPT !.c0 = states[b][1],
                                         !.c = states[b][2],
                                         !.p = states[b][2],
                                         !.v = states[b][3]]]]} :
                  /\ m_bodyList = h.bl
                  /\ m_bodyCount = h.bc
                  /\ body = h.b
                  /\ m_jointList = h.jl
                  /\ m_jointCount = h.jc
                  /\ joint = h.j
                  /\ jointEdges = h.je
                  /\ links = h.ln
                  /\ m_contactList = h.cl
                  /\ contact = h.c
    /\ \E locked \in BOOLEAN :
          /\ m_flags = [newFixture |-> FALSE, locked |-> locked,
                        clearForces |-> TRUE]
          /\ pc = IF locked THEN "solve" ELSE "idle"
          /\ step = IF locked
                    THEN [dt |-> 1, velocityIterations |-> 8,
                          positionIterations |-> 3, inv_dt |-> <<1, 1>>,
                          dtRatio |-> <<0, 1>>, warmStarting |-> TRUE]
                    ELSE NoStep
          /\ stepCount = IF locked THEN MaxSteps ELSE 0
    /\ m_stepComplete = TRUE
    /\ m_continuousPhysics = TRUE
    /\ m_subStepping = FALSE
    /\ m_warmStarting = TRUE
    /\ m_allowSleep = TRUE
    /\ m_destructionListener = NoListener
    /\ m_broadPhase = 0
    /\ m_inv_dt0 = <<0, 1>>
    /\ seed = 1
    /\ islands = <<>>
    /\ events = <<>>
    /\ toiIsland = NoTOIIsland
    /\ awake0 = {}
    /\ ret = "none"
    /\ fj = NoFrictionJoint

ShiftNext == \E newOrigin \in OriginValues : ShiftOrigin(newOrigin)

SpecShift == ShiftInit /\ [][ShiftNext]_vars

(***************************************************************************)
(* The islands of one Solve pass.                                          *)
(***************************************************************************)
IsStatic(b) == body[b].type = "cb2_staticBody"
IsDynamic(b) == body[b].type = "cb2_dynamicBody"

\* Two active bodies are linked by an enabled, touching, non-sensor contact
\* or by a joint.
Linked(a, b) ==
    /\ a # b
    /\ body[a].active /\ body[b].active
    /\ \/ \E c \in LiveContacts :
             /\ {contact[c].bodyA, contact[c].bodyB} = {a, b}
             /\ contact[c].enabled /\ contact[c].touching /\ ~contact[c].sensor
       \/ \E j \in Range(m_jointList) : {joint[j].bodyA, joint[j].bodyB} = {a, b}

IslandBodies(i) == Range(islands[i].bodies)
IslandsOf(b) == {i \in DOMAIN islands : b \in IslandBodies(i)}

\* The seed loop has gone through the whole body list.
PassDone == pc = "solveLoop" /\ seed > Len(m_bodyList)

\* The non-static bodies that a chain of links through non-static bodies
\* connects to the bodies of R.
RECURSIVE Reach(_)
Reach(R) ==
    LET R2 == R \cup {b \in LiveBodies :
                        ~IsStatic(b) /\ \E a \in R : ~IsStatic(a) /\ Linked(a, b)}
    IN IF R2 = R THEN R ELSE Reach(R2)

\* C3 as stated: when the pass is over and either body of a linked pair of
\* active bodies has been placed in an island, one island holds both bodies,
\* and a non-static body of the pair is in no other island.
C3_AsStated ==
    PassDone =>
       \A a \in LiveBodies, b \in LiveBodies :
          (Linked(a, b) /\ IslandsOf(a) # {}) =>
             /\ IslandsOf(a) \cap IslandsOf(b) # {}
             /\ \A x \in {a, b} : ~IsStatic(x) => Cardinality(IslandsOf(x)) = 1

\* C3: whenever a non-static body of a linked pair of active bodies is placed
\* in an island, that island holds both bodies of the pair, and the non-static
\* body is in no other island.
C3_LinkedPairSharesIsland ==
    \A i \in DOMAIN islands : \A a \in IslandBodies(i), b \in LiveBodies :
       (~IsStatic(a) /\ Linked(a, b)) =>
          /\ b \in IslandBodies(i)
          /\ IslandsOf(a) = {i}

\* A body that slept when the pass began has been pulled into the island of
\* an awake body it is linked to.
C3_Witness ==
    /\ PassDone
    /\ \E i \in DOMAIN islands : \E a \in IslandBodies(i), b \in IslandBodies(i) :
          /\ Linked(a, b)
          /\ ~IsStatic(a) /\ ~IsStatic(b)
          /\ a \in awake0 /\ b \notin awake0

\* The bodies A, B and S of the scenario of C4.
StaticBridge(A, B, S) ==
    /\ A # B
    /\ IsDynamic(A) /\ IsDynamic(B) /\ IsStatic(S)
    /\ A \in awake0 /\ B \in awake0
    /\ body[A].active /\ body[B].active /\ body[S].active
    /\ Linked(A, S) /\ Linked(S, B)
    /\ B \notin Reach({A})

\* C4: with awake, active dynamic bodies A and B, an active static body S,
\* links A-S and S-B and no other path between A and B, one Solve pass
\* builds two islands, one with A and S but not B, one with B and S but
\* not A.
C4_StaticBodySplitsIslands ==
    PassDone =>
       \A A \in LiveBodies, B \in LiveBodies, S \in LiveBodies :
          StaticBridge(A, B, S) =>
             \E i \in DOMAIN islands, k \in DOMAIN islands :
                /\ i # k
                /\ {A, S} \subseteq IslandBodies(i) /\ B \notin IslandBodies(i)
                /\ {B, S} \subseteq IslandBodies(k) /\ A \notin IslandBodies(k)

C4_Witness ==
    /\ PassDone
    /\ Len(islands) = 2
    /\ \E A \in LiveBodies, B \in LiveBodies, S \in LiveBodies :
          StaticBridge(A, B, S)

NoDuplicates(q) == \A i \in DOMAIN q, k \in DOMAIN q : q[i] = q[k] => i = k

\* C5: a static body never seeds an island: it is in an island only as a
\* neighbour of a non-static body of that island, and the seed of an island
\* is not static; a Step of a world of static bodies only builds no island
\* and changes no position, sweep or velocity.
C5_StaticBodies ==
    [][StepAction =>
         /\ \A i \in DOMAIN islands' :
              /\ body'[islands'[i].bodies[1]].type # "cb2_staticBody"
              /\ \A s \in Range(islands'[i].bodies) :
                    body'[s].type = "cb2_staticBody" =>
                       \E x \in Range(islands'[i].bodies) :
                          body'[x].type # "cb2_staticBody" /\ Linked(x, s)'
         /\ (\A b \in LiveBodies : IsStatic(b)) =>
               /\ islands' = <<>>
               /\ \A b \in LiveBodies :
                     /\ body'[b].c = body[b].c
                     /\ body'[b].c0 = body[b].c0
                     /\ body'[b].alpha0 = body[b].alpha0
                     /\ body'[b].v = body[b].v
                     /\ body'[b].islandFlag = FALSE]_vars

\* A static body is in the island of the non-static body it is linked to.
C5_Witness ==
    /\ pc = "solveLoop"
    /\ \E i \in DOMAIN islands : \E s \in IslandBodies(i), x \in IslandBodies(i) :
          /\ IsStatic(s) /\ ~IsStatic(x)
          /\ Linked(x, s)

\* C6 as stated: no body is added to two different islands of one pass, and
\* no body is added twice to one island.
C6_AsStated ==
    /\ \A b \in LiveBodies : Cardinality(IslandsOf(b)) <= 1
    /\ \A i \in DOMAIN islands : NoDuplicates(islands[i].bodies)

\* C6: no non-static body is added to two different islands of one pass, and
\* no body, static or not, is added twice to one island.
C6_OneIslandPerBody ==
    /\ \A b \in LiveBodies : ~IsStatic(b) => Cardinality(IslandsOf(b)) <= 1
    /\ \A i \in DOMAIN islands : NoDuplicates(islands[i].bodies)

\* A static body has been added to two islands, two non-static bodies to one
\* each.
C6_Witness ==
    /\ PassDone
    /\ \E s \in LiveBodies : IsStatic(s) /\ Cardinality(IslandsOf(s)) = 2
    /\ Cardinality({b \in LiveBodies : ~IsStatic(b) /\ IslandsOf(b) # {}}) = 2

(***************************************************************************)
(* A friction joint through the velocity iterations of successive steps.   *)
(***************************************************************************)
JointInit ==
    /\ m_bodyList = <<>>
    /\ m_bodyCount = 0
    /\ body = [b \in BodyId |-> FreeBody]
    /\ m_jointList = <<>>
    /\ m_jointCount = 0
    /\ joint = [j \in JointId |-> FreeJoint]
    /\ jointEdges = [b \in BodyId |-> <<>>]
    /\ links = NoLinks
    /\ m_contactList = <<>>
    /\ contact = [c \in ContactId |-> FreeContact]
    /\ m_flags = [newFixture |-> FALSE, locked |-> FALSE, clearForces |-> TRUE]
    /\ m_stepComplete = TRUE
    /\ m_continuousPhysics = TRUE
    /\ m_subStepping = FALSE
    /\ m_warmStarting = TRUE
    /\ m_allowSleep = TRUE
    /\ m_destructionListener = NoListener
    /\ m_broadPhase = 0
    /\ m_inv_dt0 = <<0, 1>>
    /\ pc = "idle"
    /\ step = NoStep
    /\ seed = 1
    /\ islands = <<>>
    /\ events = <<>>
    /\ toiIsland = NoTOIIsland
    /\ awake0 = {}
    /\ stepCount = 0
    /\ ret = "none"
    /\ \E def \in DefLimits, pair \in BodyPairs : fj = FrictionJoint(def, pair)

JointNext ==
    \/ \E dt \in JointDtValues : FrictionStepEnter(dt)
    \/ \E v \in VelocityValues : InitVelocityConstraints(v)
    \/ \E v \in IncomingVelocities : SolveVelocityConstraints(v)
    \/ FrictionStepEnd
    \/ \E force \in SetValues : SetMaxForce(force)
    \/ \E torque \in SetValues : SetMaxTorque(torque)
    \/ \E flag \in BOOLEAN : SetWarmStarting(flag)

SpecJoint == JointInit /\ [][JointNext]_vars

\* SolveVelocityConstraints has returned and nothing has touched the joint
\* since.
Solved == fj.pc = "solving" /\ fj.iterations > 0

\* C9: after every call of SolveVelocityConstraints the accumulated angular
\* impulse satisfies |m_angularImpulse| <= dt * maxTorque.
C9_AngularImpulseBounded ==
    Solved => QLeq(QAbs(fj.m_angularImpulse), QMul(fj.dt, fj.m_maxTorque))

\* C10: after every call of SolveVelocityConstraints the accumulated linear
\* impulse satisfies |m_linearImpulse|^2 <= (dt * maxForce)^2, and when the
\* unclamped sum exceeded the bound it has the direction of that sum and the
\* magnitude dt * maxForce.
C10_LinearImpulseBounded ==
    Solved =>
       LET maxImpulse == QMul(fj.dt, fj.m_maxForce)
           bound == QMul(maxImpulse, maxImpulse)
       IN /\ QLeq(LengthSquared(fj.m_linearImpulse), bound)
          /\ QLess(bound, LengthSquared(fj.sum)) =>
                /\ LengthSquared(fj.m_linearImpulse) = bound
                /\ QLeq(QZero, maxImpulse)
                /\ cb2Cross(fj.m_linearImpulse, fj.sum) = QZero
                /\ QLeq(QZero, Dot(fj.m_linearImpulse, fj.sum))

\* The accumulated impulses of the joint.
Impulses == <<fj.m_linearImpulse, fj.m_angularImpulse>>

\* C11 as stated: when a Step with warm starting on has the dt of the last
\* Step with dt > 0, the accumulated impulses after the rescaling of
\* InitVelocityConstraints are those the last SolveVelocityConstraints left,
\* and nothing between the steps changes them.
C11_AsStated ==
    [][/\ fj'.pc \in {"ready", "init", "skipped"} => Impulses' = Impulses
       /\ (fj.pc = "init" /\ step.warmStarting /\ fj.dt = QInt(step.dt)) =>
             Impulses' = Impulses]_vars

\* C11: when Step has computed a dtRatio of 1 and warm starting is on, the
\* accumulated linear and angular impulse after the rescaling of
\* InitVelocityConstraints are those the last SolveVelocityConstraints left;
\* nothing between the steps changes them.
C11_WarmStartKeepsImpulses ==
    [][/\ fj'.pc \in {"ready", "init", "skipped"} => Impulses' = Impulses
       /\ (fj.pc = "init" /\ step.warmStarting /\ step.dtRatio = QInt(1)) =>
             Impulses' = Impulses]_vars

\* A step has taken over the impulses of the step before it, made with the
\* same dt.
C11_Witness ==
    /\ fj.pc = "solving"
    /\ fj.iterations = 0
    /\ fj.steps > 0
    /\ step.warmStarting
    /\ step.dtRatio = QInt(1)
    /\ fj.m_linearImpulse # VZero
    /\ fj.m_angularImpulse # QZero

\* C18 as stated: the dtRatio that Step passes to the solver is this step's
\* 1 / dt divided by the 1 / dt of the last step with dt > 0.
C18_AsStated ==
    (fj.pc = "init" /\ fj.dt # QZero) =>
       step.dtRatio = FloatDiv(FloatDiv(QInt(1), QInt(step.dt)),
                               FloatDiv(QInt(1), fj.dt))

\* C18: the dtRatio that Step passes to the solver is the product of the
\* 1 / dt of the last step with dt > 0 and this step's dt, that is the ratio
\* of the earlier step's 1 / dt to this step's, up to the rounding of the two
\* operations; it is 0 when no step with dt > 0 came before.
C18_DtRatio ==
    fj.pc = "init" =>
       /\ fj.dt = QZero => step.dtRatio = QZero
       /\ fj.dt # QZero =>
             /\ m_inv_dt0 = FloatDiv(QInt(1), fj.dt)
             /\ step.dtRatio = FloatMul(m_inv_dt0, QInt(step.dt))
             /\ QLeq(QMul(QInt(Pow2(FloatBits - 2)),
                          QAbs(QSub(QMul(step.dtRatio, fj.dt), QInt(step.dt)))),
                     QInt(step.dt))

\* A step with dt = 13 follows a step with dt = 1 and a step with dt = 0: the
\* ratio is 13.
C18_Witness ==
    /\ fj.pc = "init"
    /\ fj.skipped > 0
    /\ fj.dt = QInt(1)
    /\ step.dt = 13
    /\ step.dtRatio = QInt(13)

\* C19: a call of SolveVelocityConstraints changes the velocities by the
\* difference d between the new, clamped accumulated impulses and the old
\* ones, body A by -invMassA * d and -invIA * (cross(rA, d) + angular d),
\* body B by +invMassB * d and +invIB * (cross(rB, d) + angular d); what the
\* calls of a step have applied adds up to the accumulated impulses minus
\* those at the end of InitVelocityConstraints.
C19_AppliedImpulseIsDelta ==
    [][/\ \A v \in IncomingVelocities :
            SolveVelocityConstraints(v) =>
               LET d == VSub(fj'.m_linearImpulse, fj.m_linearImpulse)
                   a == QSub(fj'.m_angularImpulse, fj.m_angularImpulse)
                   m_rA == VInt(fj.bodies.rA[1], fj.bodies.rA[2])
                   m_rB == VInt(fj.bodies.rB[1], fj.bodies.rB[2])
               IN fj'.velocities =
                     <<VSub(v[1], VScale(QInt(fj.bodies.invMassA), d)),
                       QSub(v[2], QMul(QInt(fj.bodies.invIA),
                                       QAdd(cb2Cross(m_rA, d), a))),
                       VAdd(v[3], VScale(QInt(fj.bodies.invMassB), d)),
                       QAdd(v[4], QMul(QInt(fj.bodies.invIB),
                                       QAdd(cb2Cross(m_rB, d), a)))>>
       /\ fj'.pc = "solving" =>
             fj'.applied = <<VSub(fj'.m_linearImpulse, fj'.start[1]),
                             QSub(fj'.m_angularImpulse, fj'.start[2])>>]_vars

\* Two calls have run in a warm started step, the clamp has cut the linear
\* impulse, and body A has received an impulse.
C19_Witness ==
    /\ Solved
    /\ fj.iterations = MaxIterations
    /\ fj.start[1] # VZero
    /\ fj.sum # fj.m_linearImpulse
    /\ fj.applied[1] # VZero
    /\ fj.applied[2] # QZero

(***************************************************************************)
(* The events of SolveTOI.                                                 *)
(***************************************************************************)
\* The events of the running call of SolveTOI.
EventsOfCall == SelectSeq(events, LAMBDA e : e[3] = stepCount)

Selected == events'[Len(events')][1]

\* C13: a contact whose m_toiCount exceeds cb2_maxSubSteps is not selected as
\* the minimum-TOI contact again; every selection adds 1 to the counter of the
\* selected contact and leaves the other counters, so that no counter exceeds
\* cb2_maxSubSteps + 1; and a counter goes back only at the start of a call
\* of SolveTOI that begins a complete step, where it becomes 0.
C13_SubStepExhaustion ==
    [][/\ Len(events') > Len(events) =>
             /\ contact[Selected].toiCount <= cb2_maxSubSteps
             /\ contact'[Selected].toiCount = contact[Selected].toiCount + 1
             /\ \A c \in Range(m_contactList) \ {Selected} :
                   contact'[c].toiCount = contact[c].toiCount
       /\ Len(events') <= Len(events) =>
             \A c \in Range(m_contactList) \cap Range(m_contactList') :
                \/ contact'[c].toiCount = contact[c].toiCount
                \/ /\ pc = "toi" /\ m_stepComplete
                   /\ contact'[c].toiCount = 0
       /\ pc' \in {"toiLoop", "finish"} =>
             \A c \in Range(m_contactList') :
                /\ contact'[c].toiCount <= cb2_maxSubSteps + 1
                /\ Cardinality({i \in DOMAIN events' : events'[i][1] = c})
                      >= contact'[c].toiCount]_vars

\* The first events of the step have used up the counter of one contact, a
\* later event has chosen another contact while the first was enabled and
\* had bodies that SolveTOI looks at.
C13_Witness ==
    /\ Len(events) > cb2_maxSubSteps + 1
    /\ \E c \in Range(m_contactList) :
          /\ \A i \in 1..(cb2_maxSubSteps + 1) : events[i][1] = c
          /\ events[Len(events)][1] # c
          /\ contact[c].toiCount = cb2_maxSubSteps + 1
          /\ contact[c].enabled
          /\ WantsTOI(Heap, contact[c])

\* The SayGoodbye calls of the call that has just returned for this object.
HeardOf(kind, id) ==
    {i \in DOMAIN m_destructionListener'.heard :
        /\ m_destructionListener'.heard[i][1] = kind
        /\ m_destructionListener'.heard[i][2] = id}

\* Sub-stepping on the worlds of one contact: Step is called with a positive
\* dt again and again for as long as the step is incomplete, and every call
\* runs to its end.
SubStepInit ==
    /\ TOIInit
    /\ m_subStepping
    /\ Len(m_contactList) = 1

SubStepResume ==
    /\ ~m_stepComplete
    /\ StepCall(1, 8, 3)

SubStepNext ==
    \/ TOIBegin
    \/ TOIEvent
    \/ StepFinish
    \/ SubStepResume
    \/ StepCollide

SpecSubStep == SubStepInit /\ [][SubStepNext]_vars /\ WF_vars(SubStepNext)

\* C14: when DestroyBody destroys a body of an unlocked world that has a
\* destruction listener, the listener hears SayGoodbye exactly once for every
\* joint attached to the body and for the fixture of the body, each time while
\* the object still exists; the object is destroyed by the time the call
\* returns, and no joint left in the world's joint list references the body.
C14_GoodbyeBeforeDestruction ==
    [][\A b \in Range(m_bodyList) \ Range(m_bodyList') :
          (~IsLocked /\ m_destructionListener.set) =>
             /\ \A e \in Range(jointEdges[b]) :
                   /\ Cardinality(HeardOf("joint", e[1])) = 1
                   /\ \A i \in HeardOf("joint", e[1]) :
                         m_destructionListener'.heard[i][3]
                   /\ e[1] \notin Range(m_jointList')
             /\ body[b].fixture # "none" =>
                   /\ Cardinality(HeardOf("fixture", b)) = 1
                   /\ \A i \in HeardOf("fixture", b) :
                         m_destructionListener'.heard[i][3]
                   /\ body'[b].fixture = "none"
             /\ \A j \in Range(m_jointList') :
                   joint'[j].bodyA # b /\ joint'[j].bodyB # b]_vars

\* DestroyBody has destroyed a body with two joints and a fixture, and the
\* listener was told of all three.
C14_Witness ==
    /\ m_destructionListener.set
    /\ Len(m_destructionListener.heard) = 3
    /\ m_destructionListener.heard[1][1] = "joint"
    /\ m_destructionListener.heard[2][1] = "joint"
    /\ m_destructionListener.heard[1][2] # m_destructionListener.heard[2][2]
    /\ m_destructionListener.heard[3][1] = "fixture"
    /\ m_destructionListener.heard[3][2] \notin Range(m_bodyList)
    /\ m_jointCount = 0

\* Everything of a body but its three positions.
BodyRest(x) == [x EXCEPT !.p = 0, !.c0 = 0, !.c = 0]

\* C15: ShiftOrigin(newOrigin) on an unlocked world subtracts newOrigin from
\* the transform position, sweep.c0 and sweep.c of every body, hands the shift
\* to every joint and to the broad-phase, and leaves everything else as it
\* was: velocities, flags, the lists and the contacts; on a locked world it
\* changes nothing at all.
C15_ShiftOrigin ==
    [][/\ IsLocked => UNCHANGED vars
       /\ ~IsLocked =>
             \E newOrigin \in OriginValues :
                /\ \A b \in Range(m_bodyList) :
                      /\ body'[b].p = body[b].p - newOrigin
                      /\ body'[b].c0 = body[b].c0 - newOrigin
                      /\ body'[b].c = body[b].c - newOrigin
                      /\ BodyRest(body'[b]) = BodyRest(body[b])
                /\ \A b \in BodyId \ Range(m_bodyList) : body'[b] = body[b]
                /\ \A j \in Range(m_jointList) :
                      /\ joint'[j].shift = joint[j].shift - newOrigin
                      /\ [joint'[j] EXCEPT !.shift = 0] = [joint[j] EXCEPT !.shift = 0]
                /\ \A j \in JointId \ Range(m_jointList) : joint'[j] = joint[j]
                /\ m_broadPhase' = m_broadPhase - newOrigin
                /\ UNCHANGED <<m_bodyList, m_bodyCount, m_jointList, m_jointCount,
                               jointEdges, links, m_contactList, contact,
                               m_flags,
                               m_stepComplete, m_continuousPhysics, m_subStepping,
                               m_warmStarting, m_allowSleep,
                               m_destructionListener, m_inv_dt0, stepVars, fj,
                               ret>>]_vars

\* An unlocked world with a joint, a contact and a moving body has been
\* shifted.
C15_Witness ==
    /\ ~IsLocked
    /\ m_broadPhase = -2
    /\ m_jointCount > 0
    /\ m_contactList # <<>>
    /\ \A j \in Range(m_jointList) : joint[j].shift = -2
    /\ \E b \in Range(m_bodyList) :
          body[b].v # 0 /\ body[b].c0 = -2 /\ body[b].c = -1 /\ body[b].p = -1

\* C16: after every iteration of the seed loop of Solve, every static body
\* of an island solved so far has its island flag cleared and every
\* non-static body of such an island has it set; the flag of the non-static
\* body is still set when the pass is left.
C16_IslandFlagsAfterIsland ==
    [][pc = "solveLoop" =>
          /\ \A i \in DOMAIN islands' : \A b \in Range(islands'[i].bodies) :
                body'[b].islandFlag = (body'[b].type # "cb2_staticBody")
          /\ \A i \in DOMAIN islands : \A b \in IslandBodies(i) :
                ~IsStatic(b) => body'[b].islandFlag]_vars

\* A static body has been in two islands solved so far and has its flag
\* cleared; the first seed still has its flag.
C16_Witness ==
    /\ pc = "solveLoop"
    /\ Len(islands) = 2
    /\ \E s \in IslandBodies(1) \cap IslandBodies(2) :
          IsStatic(s) /\ ~body[s].islandFlag
    /\ body[islands[1].bodies[1]].islandFlag
    /\ seed <= Len(m_bodyList)

\* The bodies a chain of links through non-static bodies connects to body b:
\* the non-static ones, and the static ones at the end of such a chain.
Reference(b) ==
    Reach({b}) \cup {s \in LiveBodies :
                       IsStatic(s) /\ \E a \in Reach({b}) : Linked(a, s)}

\* C17: the bodies of an island that Solve builds are exactly those that a
\* path of qualifying edges (an enabled, touching contact without sensor, or a
\* joint between active bodies) through non-static bodies connects to the
\* seed; every contact of the island is enabled, touching and without sensor
\* and has a body of the island at both ends, and so has every joint.
C17_IslandIsExact ==
    [][(pc = "solveLoop" /\ Len(islands') > Len(islands)) =>
          LET island == islands'[Len(islands')]
          IN /\ Range(island.bodies) = Reference(m_bodyList[seed])
             /\ \A c \in Range(island.contacts) :
                   /\ contact[c].enabled /\ contact[c].touching
                   /\ ~contact[c].sensor
                   /\ {contact[c].bodyA, contact[c].bodyB}
                         \subseteq Range(island.bodies)
             /\ \A j \in Range(island.joints) :
                   {joint[j].bodyA, joint[j].bodyB} \subseteq Range(island.bodies)]_vars

\* An island of two bodies has been built next to a third body that only a
\* sensor contact connects to it.
C17_Witness ==
    /\ pc = "solveLoop"
    /\ \E i \in DOMAIN islands :
          /\ Cardinality(IslandBodies(i)) = 2
          /\ \E c \in LiveContacts :
                /\ contact[c].sensor /\ contact[c].enabled /\ contact[c].touching
                /\ contact[c].bodyA \in IslandBodies(i)
                /\ contact[c].bodyB \notin IslandBodies(i)
                /\ ~IsStatic(contact[c].bodyA) /\ ~IsStatic(contact[c].bodyB)

\* C20: the capacity assertions of Solve never fire: at no push does the
\* stack already hold m_bodyCount bodies, and no island holds more bodies than
\* m_bodyCount, more contacts than the contact list or more joints than
\* m_jointCount.
C20_CapacitiesSuffice ==
    \A i \in DOMAIN islands :
       /\ ~islands[i].overflow
       /\ Len(islands[i].bodies) <= m_bodyCount
       /\ Len(islands[i].contacts) <= Len(m_contactList)
       /\ Len(islands[i].joints) <= m_jointCount

\* The pass has built an island of all the bodies, whose seed pushed the two
\* others before either was popped, and a static body is in two islands.
C20_Witness ==
    /\ PassDone
    /\ \E i \in DOMAIN islands :
          /\ Len(islands[i].bodies) = m_bodyCount
          /\ Len(islands[i].contacts) + Len(islands[i].joints) = MaxLinks
          /\ \A b \in IslandBodies(i) \ {islands[i].bodies[1]} :
                Linked(islands[i].bodies[1], b)

\* The events the loop of SolveTOI can still select: cb2_maxSubSteps + 1 for
\* a contact still to be created, less by one for every event a contact
\* has had.
RECURSIVE Sum(_, _)
Sum(f, S) ==
    IF S = {} THEN 0
    ELSE LET x == CHOOSE y \in S : TRUE IN f[x] + Sum(f, S \ {x})

EventsLeft(cs, cl) ==
    Sum([c \in ContactId |->
            IF c \in Range(cl) THEN cb2_maxSubSteps + 1 - cs[c].toiCount
            ELSE cb2_maxSubSteps + 1],
        ContactId)

\* C21: SolveTOI terminates: an iteration of the event loop that does not
\* leave the loop has selected a contact, whose counter it raises, so that
\* the number of events still possible goes down by one, and no counter
\* exceeds cb2_maxSubSteps + 1; and a Step call that is in the loop gets to the exit 'no more TOI
\* events' (or, with sub-stepping, to the break after one island).
C21_SolveTOITerminates ==
    /\ [][(pc = "toiLoop" /\ pc' = "toiLoop") =>
             /\ Len(events') = Len(events) + 1
             /\ EventsLeft(contact', m_contactList')
                   = EventsLeft(contact, m_contactList) - 1
             /\ \A c \in Range(m_contactList') :
                   contact'[c].toiCount <= cb2_maxSubSteps + 1]_vars
    /\ (pc = "toiLoop") ~> (pc = "finish")

\* The loop has gone through all the events its contact may have and has
\* left by its exit, although the contact could have had another.
C21_Witness ==
    /\ pc = "finish"
    /\ m_stepComplete
    /\ ~m_subStepping
    /\ Len(events) = cb2_maxSubSteps + 1
    /\ \A c \in LiveContacts :
          /\ contact[c].toiCount = cb2_maxSubSteps + 1
          /\ contact[c].enabled
          /\ WantsTOI(Heap, contact[c])

\* C22: the island of a TOI event is solved without warm starting, with
\* dtRatio 1, 20 position iterations, the velocity iterations of the step and
\* the positive dt = (1 - minAlpha) * step.dt, whatever the warm-starting
\* setting of the world and the position iterations of the step; it holds no
\* joint, it holds the two bodies of the event's contact at the indices given
\* to its solver, and it holds no more bodies or contacts than its capacity.
C22_TOIIslandSubStep ==
    toiIsland # NoTOIIsland =>
        LET event == events[Len(events)]
            minContact == event[1]
            minAlpha == event[2]
        IN /\ ~toiIsland.subStep.warmStarting
           /\ toiIsland.subStep.dtRatio = <<1, 1>>
           /\ toiIsland.subStep.positionIterations = 20
           /\ toiIsland.subStep.velocityIterations = step.velocityIterations
           /\ toiIsland.subStep.dt = <<(AlphaOne - minAlpha) * step.dt, AlphaOne>>
           /\ toiIsland.subStep.dt[1] > 0
           /\ toiIsland.joints = <<>>
           /\ toiIsland.bodies[toiIsland.toiIndexA + 1] = contact[minContact].bodyA
           /\ toiIsland.bodies[toiIsland.toiIndexB + 1] = contact[minContact].bodyB
           /\ minContact \in Range(toiIsland.contacts)
           /\ Len(toiIsland.bodies) <= 2 * cb2_maxTOIContacts
           /\ Len(toiIsland.contacts) <= cb2_maxTOIContacts

\* The island of an event is solved in a world that warm starts, in a step of
\* 3 position iterations: the island holds a third body and a second contact,
\* as many contacts as it has room for.
C22_Witness ==
    /\ toiIsland # NoTOIIsland
    /\ m_warmStarting /\ step.warmStarting
    /\ step.positionIterations = 3
    /\ Len(toiIsland.bodies) = 3
    /\ Len(toiIsland.contacts) = cb2_maxTOIContacts
    /\ events[Len(events)][2] > 0

\* The iteration of the event loop that has just run selected a contact and
\* solved no island: the contact was disabled or not touching after its
\* Update (line 740).
RestoredEvent ==
    /\ pc = "toiLoop"
    /\ Len(events') = Len(events) + 1
    /\ toiIsland' = NoTOIIsland

\* The sweep of a body.
Sweep(x) == <<x.c0, x.c, x.alpha0>>

\* The sweeps of the two bodies of the event's contact are in the next state
\* what they were when the contact was selected (lines 727-728): what the
\* scan of this iteration, which ends in that selection, has made of them.
SweepsRestored ==
    LET c == events'[Len(events')][1]
        minAlpha == events'[Len(events')][2]
    IN \E found \in FindMinTOI(Heap, m_contactList, NULL, AlphaOne) :
          /\ found.minContact = c
          /\ found.minAlpha = minAlpha
          /\ \A b \in {contact[c].bodyA, contact[c].bodyB} :
                Sweep(body'[b]) = Sweep(found.h.b[b])

TOIState == <<[b \in BodyId |-> body[b].alpha0],
              [c \in ContactId |->
                 <<contact[c].toiCount, contact[c].toiFlag, contact[c].toi>>]>>

\* One step of the protocol of sub-stepping.
SubSteppingProtocol ==
    /\ (pc = "toiLoop" /\ m_subStepping /\ toiIsland' # NoTOIIsland)
          => (pc' = "finish" /\ ~m_stepComplete')
    /\ ~m_stepComplete
          => /\ pc' \notin {"solve", "solveLoop"}
             /\ islands' = islands
             /\ (pc = "toi" => TOIState' = TOIState)
    /\ (~m_stepComplete /\ m_stepComplete')
          => /\ pc = "toiLoop" /\ pc' = "finish"
             /\ events' = events
             /\ toiIsland' = NoTOIIsland

RECURSIVE Walk(_, _, _)
Walk(next, p, fuel) ==
    IF p = NULL \/ fuel = 0 THEN <<>>
    ELSE <<p>> \o Walk(next, next[p], fuel - 1)

RECURSIVE WalkEdges(_, _, _)
WalkEdges(ln, e, fuel) ==
    IF e = NoEdge \/ fuel = 0 THEN <<>>
    ELSE <<e>> \o WalkEdges(ln, Edge(ln, e).next, fuel - 1)

BodyListOf(ln) ==
    Walk([b \in BodyId |-> ln.body[b].m_next], ln.bodyList, MaxBodies + 1)

JointListOf(ln) ==
    Walk([j \in JointId |-> ln.joint[j].m_next], ln.jointList, MaxJoints + 1)

EdgeListOf(ln, b) == WalkEdges(ln, ln.body[b].m_jointList, 2 * MaxJoints + 1)

\* A doubly linked list: it ends, no item is in it twice, the head has no
\* item before it and the prev of every other item is the item before it.
WellLinked(list, prev, null, max) ==
    /\ Len(list) <= max
    /\ \A i, k \in DOMAIN list : list[i] = list[k] => i = k
    /\ \A i \in DOMAIN list :
          prev[list[i]] = IF i = 1 THEN null ELSE list[i - 1]

\* The lists of the world as their pointers give them.
ListsAreSound ==
    LET bodies == BodyListOf(links)
        joints == JointListOf(links)
    IN /\ m_bodyCount = Len(bodies)
       /\ m_jointCount = Len(joints)
       /\ WellLinked(bodies, [b \in BodyId |-> links.body[b].m_prev], NULL,
                     MaxBodies)
       /\ WellLinked(joints, [j \in JointId |-> links.joint[j].m_prev], NULL,
                     MaxJoints)
       /\ bodies = m_bodyList
       /\ joints = m_jointList

\* A step that takes body b out of the world: DestroyBody(b).
BodyDestroyed(b) == b \in Range(m_bodyList) /\ b \notin Range(m_bodyList')

\* C25: m_bodyCount is the length of the body list and m_jointCount the
\* length of the joint list, as the m_next pointers give them from the heads;
\* both lists are well-formed doubly linked lists; and DestroyBody of a body
\* with k joint edges lowers m_jointCount by k and m_bodyCount by 1.
C25_CountsAndLists ==
    /\ []ListsAreSound
    /\ [][\A b \in BodyId :
             BodyDestroyed(b) =>
                /\ m_jointCount' = m_jointCount - Len(EdgeListOf(links, b))
                /\ m_bodyCount' = m_bodyCount - 1
                /\ Range(m_jointList') =
                      {j \in Range(m_jointList) :
                          joint[j].bodyA # b /\ joint[j].bodyB # b}]_vars

\* DestroyBody has destroyed a body with two joints: the listener has heard
\* of both, and no joint is left.
C25_Witness ==
    /\ m_destructionListener.set
    /\ Len(m_destructionListener.heard) >= 2
    /\ m_destructionListener.heard[1][1] = "joint"
    /\ m_destructionListener.heard[2][1] = "joint"
    /\ m_jointCount = 0
    /\ m_bodyCount = MaxBodies - 1

\* The joint edges of body b in the world's pointers, as <<joint, side>>.
EdgesOf(b) == EdgeListOf(links, b)

\* C26: a joint is in the world's joint list exactly when its edgeA is in the
\* joint-edge list of its bodyA and its edgeB in that of its bodyB, each once
\* and in no other list, with edgeA.other = bodyB and edgeB.other = bodyA; the
\* edge lists are well-formed, and none holds an edge of a joint that is not
\* in the world's list.
C26_JointEdges ==
    /\ \A b \in BodyId :
          /\ WellLinked(EdgesOf(b),
                        [e \in JointId \X {"A", "B"} |-> Edge(links, e).prev],
                        NoEdge, 2 * MaxJoints)
          /\ EdgesOf(b) = jointEdges[b]
          /\ \A e \in Range(EdgesOf(b)) :
                /\ e[1] \in Range(JointListOf(links))
                /\ b = IF e[2] = "A" THEN joint[e[1]].bodyA ELSE joint[e[1]].bodyB
          /\ b \notin Range(BodyListOf(links)) => EdgesOf(b) = <<>>
    /\ \A j \in Range(JointListOf(links)) :
          /\ <<j, "A">> \in Range(EdgesOf(joint[j].bodyA))
          /\ <<j, "B">> \in Range(EdgesOf(joint[j].bodyB))
          /\ links.joint[j].A.other = joint[j].bodyB
          /\ links.joint[j].B.other = joint[j].bodyA

\* DestroyJoint has taken the older of two joints out of the lists, no body
\* has been destroyed: the newer joint is all there is in the world's list
\* and in the lists of its two bodies, and the third body has no edge.
C26_Witness ==
    /\ m_bodyCount = MaxBodies
    /\ m_destructionListener = NoListener
    /\ JointListOf(links) = <<2>>
    /\ EdgesOf(joint[2].bodyA) = <<(<<2, "A">>)>>
    /\ EdgesOf(joint[2].bodyB) = <<(<<2, "B">>)>>
    /\ \E b \in BodyId : b \notin {joint[2].bodyA, joint[2].bodyB}
                           /\ EdgesOf(b) = <<>>

\* C27: whenever an iteration of the event loop of SolveTOI is about to start,
\* no body and no contact of the world carries the island flag.
C27_NoIslandFlagInLoop ==
    pc = "toiLoop" =>
       /\ \A b \in Range(m_bodyList) : ~body[b].islandFlag
       /\ \A c \in Range(m_contactList) : ~contact[c].islandFlag

\* The loop is about to go on after the island of an event that held three
\* bodies and two contacts.
C27_Witness ==
    /\ pc = "toiLoop"
    /\ toiIsland # NoTOIIsland
    /\ Len(toiIsland.bodies) = 3
    /\ Len(toiIsland.contacts) = 2

\* C28: in every state of SolveTOI the alpha0 of every body's sweep is below
\* 1, so the assertion alpha0 < 1 of line 672 holds whenever it is reached.
C28_AlphaBelowOne ==
    \A b \in Range(m_bodyList) : body[b].alpha0 < AlphaOne

\* The loop goes on after an event past the start of the step: its bodies
\* have been advanced to the time of the event.
C28_Witness ==
    /\ pc = "toiLoop"
    /\ toiIsland # NoTOIIsland
    /\ events[Len(events)][2] > 0
    /\ \A b \in Range(toiIsland.bodies) :
          body[b].alpha0 = events[Len(events)][2]

\* Contact c joins two dynamic bodies of which none is a bullet.
SlowPair(c) ==
    /\ body[contact[c].bodyA].type = "cb2_dynamicBody"
    /\ body[contact[c].bodyB].type = "cb2_dynamicBody"
    /\ ~body[contact[c].bodyA].bullet /\ ~body[contact[c].bodyB].bullet

\* Contact c is enabled and no sensor, one of its bodies is awake and not
\* static, and one of its bodies is a bullet or not dynamic.
Eligible(c) ==
    /\ contact[c].enabled
    /\ ~contact[c].sensor
    /\ \E b \in {contact[c].bodyA, contact[c].bodyB} :
          body[b].awake /\ body[b].type # "cb2_staticBody"
    /\ ~SlowPair(c)

\* C29: a step that leaves a contact with a newly cached time of impact, or
\* that selects a contact as the TOI event, finds that contact eligible; a
\* contact between two dynamic bodies that are no bullets is never selected
\* and is in no island of an event.
C29_TOIOnlyForEligible ==
    [][/\ \A c \in Range(m_contactList) \cap Range(m_contactList') :
             (~contact[c].toiFlag /\ contact'[c].toiFlag) => Eligible(c)
       /\ Len(events') = Len(events) + 1
             => /\ Eligible(events'[Len(events')][1])
                /\ ~SlowPair(events'[Len(events')][1])
       /\ toiIsland' # NoTOIIsland
             => \A c \in Range(toiIsland'.contacts) : ~SlowPair(c)]_vars

\* An event has been solved in a world that also holds a contact between two
\* awake dynamic bodies without bullets, enabled and touching: no time of
\* impact has been cached for it, it has caused no event and is in no island.
C29_Witness ==
    /\ pc = "toiLoop"
    /\ toiIsland # NoTOIIsland
    /\ \E c \in Range(m_contactList) :
          /\ SlowPair(c)
          /\ contact[c].enabled /\ contact[c].touching /\ ~contact[c].sensor
          /\ body[contact[c].bodyA].awake /\ body[contact[c].bodyB].awake
          /\ contact[c].toiCount = 0 /\ ~contact[c].toiFlag
          /\ c \notin Range(toiIsland.contacts)
          /\ \E b \in Range(toiIsland.bodies) : b \in {contact[c].bodyA, contact[c].bodyB}

\* The awake flag of every body in bs is the same before and after the step.
AwakeUnchanged(bs) == \A b \in bs : body'[b].awake = body[b].awake

\* The step is a CreateJoint call that created a joint.
JointCreated == m_jointCount' = m_jointCount + 1

\* The step has destroyed joint j: a DestroyJoint call, or the call that
\* DestroyBody makes for a joint of its body (line 152).
JointDestroyed(j) == j \in Range(m_jointList) /\ j \notin Range(m_jointList')

\* C30: a CreateJoint call changes the awake flag of no body; a DestroyJoint
\* call on an unlocked world leaves both bodies of the joint awake and
\* changes the awake flag of no other body.
C30_JointsAndAwake ==
    [][/\ JointCreated => AwakeUnchanged(Range(m_bodyList))
       /\ \A j \in JointId :
             JointDestroyed(j) =>
                /\ \A b \in {joint[j].bodyA, joint[j].bodyB} \cap Range(m_bodyList') :
                      body'[b].awake
                /\ m_bodyCount' = m_bodyCount =>
                      AwakeUnchanged(Range(m_bodyList) \ {joint[j].bodyA, joint[j].bodyB})]_vars

\* The first joint is gone and the second connects a body that is asleep to
\* a body that is awake: neither the creation of the second joint nor the
\* destruction of the first has woken it.
C30_Witness ==
    /\ m_jointList = <<2>>
    /\ m_bodyCount = MaxBodies
    /\ \E a \in {joint[2].bodyA, joint[2].bodyB} :
          /\ ~body[a].awake
          /\ \A b \in Range(m_bodyList) \ {a} : body[b].awake
====
